---- MODULE Spec2Model ----
(***************************************************************************)
(* Model of faer's high-level solver layer (faer/src/linalg/solvers.rs),   *)
(* of the owning permutation it stores (faer/src/perm/permown.rs) and of   *)
(* the reconstruction from a column-pivoted QR                             *)
(* (faer/src/linalg/qr/col_pivoting/reconstruct.rs).                       *)
(*                                                                         *)
(* Scalars are exact Gaussian rationals, matrices are 0-indexed like the   *)
(* source.  Numeric kernels that live outside these files are black boxes: *)
(* their results are drawn from small sets of matrices.  Every public      *)
(* operation is one action; the calls it makes (parallelism read, scratch  *)
(* query, allocation, kernel, post-processing, release) are recorded in    *)
(* order in the variable log.                                              *)
(***************************************************************************)
EXTENDS Integers, Sequences, FiniteSets, TLC

\* ------------------------------------------------------------------ bounds
MaxDim == 2
MaxSeed == 2
MaxSrcSeed == 1
MaxRhsCols == 1
MaxPermLen == 3
MaxBufDim == 3

\* ----------------------------------------------------------- real scalars
RECURSIVE GCD(_, _)
GCD(a, b) == IF b = 0 THEN a ELSE GCD(b, a % b)

Abs(x) == IF x < 0 THEN -x ELSE x

\* a real number n/d in lowest terms, d > 0
Norm(n, d) ==
    IF d = 1 THEN [n |-> n, d |-> 1]
    ELSE LET g == GCD(Abs(n), d) IN [n |-> n \div g, d |-> d \div g]
R(n) == [n |-> n, d |-> 1]
RZero == R(0)
RAdd(a, b) == Norm(a.n * b.d + b.n * a.d, a.d * b.d)
RMul(a, b) == Norm(a.n * b.n, a.d * b.d)
RNeg(a) == [n |-> -a.n, d |-> a.d]
\* recip of a non-zero real
RRecip(a) == IF a.n > 0 THEN [n |-> a.d, d |-> a.n] ELSE [n |-> -a.d, d |-> -a.n]

\* -------------------------------------------------------- complex scalars
ComplexNew(a, b) == [re |-> a, im |-> b]
C(a, b) == ComplexNew(R(a), R(b))
zero == C(0, 0)
one == C(1, 0)
real(z) == z.re
from_real(r) == ComplexNew(r, RZero)
conj(z) == ComplexNew(z.re, RNeg(z.im))
mul_real(z, r) == ComplexNew(RMul(z.re, r), RMul(z.im, r))
CAdd(x, y) == ComplexNew(RAdd(x.re, y.re), RAdd(x.im, y.im))
CMul(x, y) == ComplexNew(RAdd(RMul(x.re, y.re), RNeg(RMul(x.im, y.im))),
                         RAdd(RMul(x.re, y.im), RMul(x.im, y.re)))

\* Conj::No / Conj::Yes and Conj::compose (exclusive or)
ConjVals == {"No", "Yes"}
Compose(a, b) == IF a = b THEN "No" ELSE "Yes"
ApplyConj(c, z) == IF c = "Yes" THEN conj(z) ELSE z

\* ---------------------------------------------------------------- matrices
Idx(m, n) == (0 .. m - 1) \X (0 .. n - 1)
MatZeros(m, n) == [nrows |-> m, ncols |-> n, d |-> [p \in Idx(m, n) |-> zero]]
At(M, i, j) == M.d[<<i, j>>]
Shape(M) == <<M.nrows, M.ncols>>
Min(a, b) == IF a <= b THEN a ELSE b

DiagZeros(n) == [len |-> n, d |-> [i \in 0 .. n - 1 |-> zero]]

Transpose(M) == [nrows |-> M.ncols, ncols |-> M.nrows,
                 d |-> [p \in Idx(M.ncols, M.nrows) |-> M.d[<<p[2], p[1]>>]]]
ConjMat(M) == [M EXCEPT !.d = [p \in DOMAIN M.d |-> conj(M.d[p])]]
Adjoint(M) == ConjMat(Transpose(M))
\* M.get(.., ..c)
GetCols(M, c) == [nrows |-> M.nrows, ncols |-> c,
                  d |-> [p \in Idx(M.nrows, c) |-> M.d[p]]]
\* M.get(..r, ..)
GetRows(M, r) == [nrows |-> r, ncols |-> M.ncols,
                  d |-> [p \in Idx(r, M.ncols) |-> M.d[p]]]
Diagonal(M) == [len |-> Min(M.nrows, M.ncols),
                d |-> [i \in 0 .. Min(M.nrows, M.ncols) - 1 |-> M.d[<<i, i>>]]]

\* z!(&mut M).for_each_triangular_upper(Diag::Skip, |x| *x = zero())
ZeroStrictUpper(M) == [M EXCEPT !.d = [p \in DOMAIN M.d |->
                          IF p[1] < p[2] THEN zero ELSE M.d[p]]]
\* z!(&mut M).for_each_triangular_lower(Diag::Skip, |x| *x = zero())
ZeroStrictLower(M) == [M EXCEPT !.d = [p \in DOMAIN M.d |->
                          IF p[1] > p[2] THEN zero ELSE M.d[p]]]
\* M.diagonal_mut().fill(one())
FillDiagOne(M) == [M EXCEPT !.d = [p \in DOMAIN M.d |->
                          IF p[1] = p[2] THEN one ELSE M.d[p]]]


\* ------------------------------------------------- inputs and kernel results
\* a dense complex matrix with pairwise different entries, none of them real
\* on the diagonal
Gen(m, n, seed) == [nrows |-> m, ncols |-> n,
                    d |-> [p \in Idx(m, n) |->
                             C(3 * p[1] + p[2] + seed, p[2] - p[1] + seed)]]
\* a real matrix (imaginary parts zero)
GenReal(m, n, seed) == [nrows |-> m, ncols |-> n,
                        d |-> [p \in Idx(m, n) |-> R(3 * p[1] + p[2] + seed)]]
\* non-zero real values stored in the complex type
GenDiag(n, seed) == [len |-> n, d |-> [i \in 0 .. n - 1 |-> C(i + seed + 1, 0)]]

\* what a black-box kernel may answer: success or failure, and which values
KernelChoices == [ok : BOOLEAN, seed : 1 .. MaxSeed]

\* the rotation by s of 0..n-1 and its inverse, as a pivoting kernel fills
\* perm_fwd and perm_bwd
RotFwd(n, s) == [i \in 0 .. n - 1 |-> (i + s) % n]
RotBwd(n, s) == [i \in 0 .. n - 1 |-> (i + n * s - s) % n]

\* ---------------------------------------------------------------- call log
Ev(e, f, dims, p) == [ev |-> e, fn |-> f, dims |-> dims, par |-> p]
ParRead(p) == Ev("par_read", "get_global_parallelism", <<>>, p)
Query(f, dims, p) == Ev("scratch_query", f, dims, p)
Alloc == Ev("alloc", "GlobalMemBuffer::new", <<>>, "-")
Free == Ev("free", "drop(GlobalMemBuffer)", <<>>, "-")
Kernel(f, dims, p) == Ev("kernel", f, dims, p)
Post(f) == Ev("post", f, <<>>, "-")
\* a failed assert! of the operation itself
Check(f) == Ev("check", f, <<>>, "-")
\* a failed assertion inside a callee (kernel, matmul, copy, indexing)
CalleePanic(f) == Ev("callee_panic", f, <<>>, "-")

NoErr == [kind |-> "None", index |-> 0]
NoFact == [kind |-> "None"]
NoKern == [fn |-> "None"]
Ret(res, err, F, lg, kr) == [res |-> res, err |-> err, fact |-> F, log |-> lg, kern |-> kr]

\* ------------------------------------------------------------- permutations
\* I::Signed::MAX of a 32-bit index type, the width at which a boxed slice can
\* be longer than the bound
IndexSignedMax == 2147483647
\* a length (usize) is kept as two 31-bit words, hi * 2^31 + lo, so that a
\* length above I::Signed::MAX is a value of the model
\* a boxed slice of indices: its length and its elements
BoxedSlice(f) == [hi |-> 0, lo |-> Cardinality(DOMAIN f), d |-> f]
SliceLen(a) == [hi |-> a.hi, lo |-> a.lo]
NoPerm == [ok |-> FALSE]
PermOf(forward, inverse) == [ok |-> TRUE, forward |-> forward, inverse |-> inverse]

\* Perm::as_ref: a view of the same two arrays
Perm_as_ref(P) == [forward |-> P.forward, inverse |-> P.inverse]
\* Perm::len
Perm_len(P) == SliceLen(P.forward)
\* Perm::into_shape: the arrays are moved as they are once the length is dim
Perm_into_shape(P, dim) ==
    IF Perm_len(P) = [hi |-> 0, lo |-> dim] THEN PermOf(P.forward, P.inverse) ELSE NoPerm
\* PermRef::new_checked as the documentation of Perm::new_checked states it:
\* same length, at most I::Signed::MAX, valid permutations, inverse of each
\* other (what it does with dim is not stated)
PermRef_new_checked(forward, inverse, dim) ==
    /\ SliceLen(forward) = SliceLen(inverse)
    /\ forward.hi = 0 /\ forward.lo <= IndexSignedMax
    /\ \A i \in 0 .. forward.lo - 1 :
          /\ forward.d[i] \in 0 .. forward.lo - 1
          /\ inverse.d[i] \in 0 .. forward.lo - 1
          /\ inverse.d[forward.d[i]] = i
          /\ forward.d[inverse.d[i]] = i
\* Perm::new_checked
Perm_new_checked(forward, inverse, dim) ==
    IF PermRef_new_checked(forward, inverse, dim) THEN PermOf(forward, inverse) ELSE NoPerm
\* new_unchecked comparing the two lengths only with each other
Perm_new_unchecked_NoMax(forward, inverse) ==
    IF SliceLen(forward) = SliceLen(inverse) THEN PermOf(forward, inverse) ELSE NoPerm
\* Perm::new_unchecked: only the two lengths are looked at
Perm_new_unchecked(forward, inverse) ==
    LET n == SliceLen(forward) IN
    IF SliceLen(forward) = SliceLen(inverse) /\ n.hi = 0 /\ n.lo <= IndexSignedMax
    THEN PermOf(forward, inverse)
    ELSE NoPerm
\* Perm::into_arrays
Perm_into_arrays(P) == <<P.forward, P.inverse>>
\* into_inverse keeping the inverse array in both places
Perm_into_inverse_Dup(P) == PermOf(P.inverse, P.inverse)
\* into_inverse leaving the arrays where they are
Perm_into_inverse_Same(P) == PermOf(P.forward, P.inverse)
\* Perm::into_inverse: the two arrays change places
Perm_into_inverse(P) == PermOf(P.inverse, P.forward)

\* ------------------------------------------------- matrix copy primitives
\* dst.copy_from_triangular_lower(src): lower triangle with the diagonal
copy_from_triangular_lower(dst, src) ==
    [dst EXCEPT !.d = [p \in DOMAIN dst.d |->
        IF p[1] >= p[2] THEN src.d[p] ELSE dst.d[p]]]
\* dst.copy_from_triangular_upper(src): upper triangle with the diagonal
copy_from_triangular_upper(dst, src) ==
    [dst EXCEPT !.d = [p \in DOMAIN dst.d |->
        IF p[1] <= p[2] THEN src.d[p] ELSE dst.d[p]]]
\* dst.copy_from_strict_triangular_lower(src)
copy_from_strict_triangular_lower(dst, src) ==
    [dst EXCEPT !.d = [p \in DOMAIN dst.d |->
        IF p[1] > p[2] THEN src.d[p] ELSE dst.d[p]]]
\* the copies take a source of the destination's shape
CopyShapesOk(dst, src) == Shape(dst) = Shape(src)

\* a view of scalar type C: the canonical data and whether C is the
\* conjugate wrapper (Conj::get::<C>())
ViewValue(v) == IF v.conj = "Yes" THEN ConjMat(v.mat) ELSE v.mat
ViewAdjoint(v) == [mat |-> Transpose(v.mat), conj |-> Compose(v.conj, "Yes")]

\* ------------------------------------------------------------- Cholesky
\* cholesky::llt::factor::cholesky_in_place, a black box
llt_cholesky_in_place(W, k) ==
    [fn |-> "llt::factor::cholesky_in_place", input |-> W, ok |-> k.ok,
     err |-> IF k.ok THEN NoErr
             ELSE [kind |-> "NonPositivePivot", index |-> (k.seed - 1) % W.nrows],
     out |-> Gen(W.nrows, W.ncols, k.seed)]

\* the scratch buffer leaked when the kernel fails
Cholesky_new_imp_Leak(L, p, k) ==
    LET n == L.nrows
        kr == llt_cholesky_in_place(L, k)
        lg == << ParRead(p),
                 Query("llt::factor::cholesky_in_place_scratch", <<n>>, p),
                 Alloc,
                 Kernel("llt::factor::cholesky_in_place", <<n>>, p) >>
    IN IF ~kr.ok
       THEN Ret("err", kr.err, NoFact, lg, kr)
       ELSE Ret("ok", NoErr, [kind |-> "Cholesky", L |-> ZeroStrictUpper(kr.out)],
                lg \o <<Post("zero_strict_upper"), Free>>, kr)
Cholesky_new_imp(L, p, k) ==
    LET n == L.nrows
        kr == llt_cholesky_in_place(L, k)
        lg == << ParRead(p),
                 Query("llt::factor::cholesky_in_place_scratch", <<n>>, p),
                 Alloc,
                 Kernel("llt::factor::cholesky_in_place", <<n>>, p) >>
    IN IF ~kr.ok
       THEN Ret("err", kr.err, NoFact, lg \o <<Free>>, kr)
       ELSE Ret("ok", NoErr, [kind |-> "Cholesky", L |-> ZeroStrictUpper(kr.out)],
                lg \o <<Post("zero_strict_upper"), Free>>, kr)

\* the working copy taken from the lower triangle whatever the side
WorkingCopy_LowerOnly(A, side) ==
    copy_from_triangular_lower(MatZeros(A.mat.nrows, A.mat.nrows), ViewValue(A))
\* the working copy that Cholesky::new, Ldlt::new and Lblt::new build
WorkingCopy(A, side) ==
    IF side = "Lower"
    THEN copy_from_triangular_lower(MatZeros(A.mat.nrows, A.mat.nrows), ViewValue(A))
    ELSE copy_from_triangular_lower(MatZeros(A.mat.nrows, A.mat.nrows),
                                    ViewValue(ViewAdjoint(A)))

Cholesky_new(A, side, p, k) ==
    IF A.mat.nrows # A.mat.ncols
    THEN Ret("panic", NoErr, NoFact, <<Check("A.nrows() == A.ncols()")>>, NoKern)
    ELSE Cholesky_new_imp(WorkingCopy(A, side), p, k)

\* ----------------------------------------------------------------- Ldlt
ldlt_cholesky_in_place(W, k) ==
    [fn |-> "ldlt::factor::cholesky_in_place", input |-> W, ok |-> k.ok,
     err |-> IF k.ok THEN NoErr
             ELSE [kind |-> "ZeroPivot", index |-> (k.seed - 1) % W.nrows],
     out |-> Gen(W.nrows, W.ncols, k.seed)]

\* the kernel's result ignored: the object is built also after a failure
Ldlt_new_imp_IgnoreErr(L, p, k) ==
    LET n == L.nrows
        kr == ldlt_cholesky_in_place(L, k)
        lg == << ParRead(p),
                 Query("llt::factor::cholesky_in_place_scratch", <<n>>, p),
                 Alloc,
                 Kernel("ldlt::factor::cholesky_in_place", <<n>>, p) >>
    IN Ret("ok", NoErr,
           [kind |-> "Ldlt",
            L |-> ZeroStrictUpper(FillDiagOne(kr.out)),
            D |-> Diagonal(kr.out)],
           lg \o <<Post("copy_diagonal"), Post("fill_diagonal_one"),
                   Post("zero_strict_upper"), Free>>, kr)
\* D copied only after the diagonal of L has been filled with ones
Ldlt_new_imp_DiagAfterFill(L, p, k) ==
    LET n == L.nrows
        kr == ldlt_cholesky_in_place(L, k)
        lg == << ParRead(p),
                 Query("llt::factor::cholesky_in_place_scratch", <<n>>, p),
                 Alloc,
                 Kernel("ldlt::factor::cholesky_in_place", <<n>>, p) >>
    IN IF ~kr.ok
       THEN Ret("err", kr.err, NoFact, lg \o <<Free>>, kr)
       ELSE Ret("ok", NoErr,
                [kind |-> "Ldlt",
                 L |-> ZeroStrictUpper(FillDiagOne(kr.out)),
                 D |-> Diagonal(FillDiagOne(kr.out))],
                lg \o <<Post("copy_diagonal"), Post("fill_diagonal_one"),
                        Post("zero_strict_upper"), Free>>, kr)
Ldlt_new_imp(L, p, k) ==
    LET n == L.nrows
        kr == ldlt_cholesky_in_place(L, k)
        lg == << ParRead(p),
                 Query("llt::factor::cholesky_in_place_scratch", <<n>>, p),
                 Alloc,
                 Kernel("ldlt::factor::cholesky_in_place", <<n>>, p) >>
    IN IF ~kr.ok
       THEN Ret("err", kr.err, NoFact, lg \o <<Free>>, kr)
       ELSE Ret("ok", NoErr,
                [kind |-> "Ldlt",
                 L |-> ZeroStrictUpper(FillDiagOne(kr.out)),
                 D |-> Diagonal(kr.out)],
                lg \o <<Post("copy_diagonal"), Post("fill_diagonal_one"),
                        Post("zero_strict_upper"), Free>>, kr)

Ldlt_new(A, side, p, k) ==
    IF A.mat.nrows # A.mat.ncols
    THEN Ret("panic", NoErr, NoFact, <<Check("A.nrows() == A.ncols()")>>, NoKern)
    ELSE Ldlt_new_imp(WorkingCopy(A, side), p, k)

\* ----------------------------------------------------------------- Lblt
\* cholesky::bunch_kaufman::factor::cholesky_in_place, infallible
bunch_kaufman_cholesky_in_place(W, k) ==
    [fn |-> "bunch_kaufman::factor::cholesky_in_place", input |-> W, ok |-> TRUE,
     err |-> NoErr,
     out |-> Gen(W.nrows, W.ncols, k.seed),
     subdiag |-> GenDiag(W.nrows, k.seed),
     perm_fwd |-> RotFwd(W.nrows, k.seed),
     perm_bwd |-> RotBwd(W.nrows, k.seed)]

Lblt_new_imp(L, p, k) ==
    LET n == L.nrows
        kr == bunch_kaufman_cholesky_in_place(L, k)
        P == Perm_new_unchecked(BoxedSlice(kr.perm_fwd), BoxedSlice(kr.perm_bwd))
        lg == << ParRead(p),
                 Query("llt::factor::cholesky_in_place_scratch", <<n>>, p),
                 Alloc,
                 Kernel("bunch_kaufman::factor::cholesky_in_place", <<n>>, p),
                 Post("copy_diagonal"), Post("fill_diagonal_one"),
                 Post("zero_strict_upper") >>
    IN IF ~P.ok
       THEN Ret("panic", NoErr, NoFact, lg \o <<Free>>, kr)
       ELSE Ret("ok", NoErr,
                [kind |-> "Lblt",
                 L |-> ZeroStrictUpper(FillDiagOne(kr.out)),
                 B_diag |-> Diagonal(kr.out),
                 B_subdiag |-> kr.subdiag,
                 P |-> [forward |-> P.forward, inverse |-> P.inverse]],
                lg \o <<Free>>, kr)

Lblt_new(A, side, p, k) ==
    IF A.mat.nrows # A.mat.ncols
    THEN Ret("panic", NoErr, NoFact, <<Check("A.nrows() == A.ncols()")>>, NoKern)
    ELSE Lblt_new_imp(WorkingCopy(A, side), p, k)


\* -------------------------------------------------------------- split_LU
split_LU(LU) ==
    LET m == LU.nrows
        n == LU.ncols
        size == Min(m, n)
    IN IF m >= n
       THEN \* U.copy_from_triangular_upper(&L) with U size x size, L m x n
            IF ~CopyShapesOk(MatZeros(size, size), LU)
            THEN [ok |-> FALSE, L |-> LU, U |-> MatZeros(size, size)]
            ELSE [ok |-> TRUE,
                  L |-> FillDiagOne(ZeroStrictUpper(LU)),
                  U |-> copy_from_triangular_upper(MatZeros(size, size), LU)]
       ELSE \* L.copy_from_strict_triangular_lower(&U) with L size x size, U m x n
            IF ~CopyShapesOk(MatZeros(size, size), LU)
            THEN [ok |-> FALSE, L |-> MatZeros(size, size), U |-> LU]
            ELSE [ok |-> TRUE,
                  L |-> FillDiagOne(copy_from_strict_triangular_lower(MatZeros(size, size), LU)),
                  U |-> ZeroStrictLower(LU)]

\* --------------------------------------------------- PartialPivLu, FullPivLu
lu_partial_pivoting_lu_in_place(A, k) ==
    [fn |-> "lu::partial_pivoting::factor::lu_in_place", input |-> A, ok |-> TRUE,
     err |-> NoErr,
     out |-> Gen(A.nrows, A.ncols, k.seed),
     row_perm_fwd |-> RotFwd(A.nrows, k.seed),
     row_perm_bwd |-> RotBwd(A.nrows, k.seed)]

PartialPivLu_new_imp(LU, p, k) ==
    LET m == LU.nrows
        n == LU.ncols
        kr == lu_partial_pivoting_lu_in_place(LU, k)
        sp == split_LU(kr.out)
        P == Perm_new_unchecked(BoxedSlice(kr.row_perm_fwd), BoxedSlice(kr.row_perm_bwd))
        lg == << ParRead(p),
                 Query("lu::partial_pivoting::factor::lu_in_place_scratch", <<m, n>>, p),
                 Alloc,
                 Kernel("lu::partial_pivoting::factor::lu_in_place", <<m, n>>, p),
                 Free >>
    IN IF ~sp.ok
       THEN Ret("panic", NoErr, NoFact, lg \o <<CalleePanic("split_LU: copy shapes")>>, kr)
       ELSE IF ~P.ok
       THEN Ret("panic", NoErr, NoFact, lg \o <<Post("split_LU")>>, kr)
       ELSE Ret("ok", NoErr,
                [kind |-> "PartialPivLu", L |-> sp.L, U |-> sp.U,
                 P |-> [forward |-> P.forward, inverse |-> P.inverse]],
                lg \o <<Post("split_LU")>>, kr)

PartialPivLu_new(A, p, k) == PartialPivLu_new_imp(ViewValue(A), p, k)

lu_full_pivoting_lu_in_place(A, k) ==
    [fn |-> "lu::full_pivoting::factor::lu_in_place", input |-> A, ok |-> TRUE,
     err |-> NoErr,
     out |-> Gen(A.nrows, A.ncols, k.seed),
     row_perm_fwd |-> RotFwd(A.nrows, k.seed),
     row_perm_bwd |-> RotBwd(A.nrows, k.seed),
     col_perm_fwd |-> RotFwd(A.ncols, k.seed),
     col_perm_bwd |-> RotBwd(A.ncols, k.seed)]

FullPivLu_new_imp(LU, p, k) ==
    LET m == LU.nrows
        n == LU.ncols
        kr == lu_full_pivoting_lu_in_place(LU, k)
        sp == split_LU(kr.out)
        P == Perm_new_unchecked(BoxedSlice(kr.row_perm_fwd), BoxedSlice(kr.row_perm_bwd))
        Q == Perm_new_unchecked(BoxedSlice(kr.col_perm_fwd), BoxedSlice(kr.col_perm_bwd))
        lg == << ParRead(p),
                 Query("lu::partial_pivoting::factor::lu_in_place_scratch", <<m, n>>, p),
                 Alloc,
                 Kernel("lu::full_pivoting::factor::lu_in_place", <<m, n>>, p),
                 Free >>
    IN IF ~sp.ok
       THEN Ret("panic", NoErr, NoFact, lg \o <<CalleePanic("split_LU: copy shapes")>>, kr)
       ELSE IF ~P.ok \/ ~Q.ok
       THEN Ret("panic", NoErr, NoFact, lg \o <<Post("split_LU")>>, kr)
       ELSE Ret("ok", NoErr,
                [kind |-> "FullPivLu", L |-> sp.L, U |-> sp.U,
                 P |-> [forward |-> P.forward, inverse |-> P.inverse],
                 Q |-> [forward |-> Q.forward, inverse |-> Q.inverse]],
                lg \o <<Post("split_LU")>>, kr)

FullPivLu_new(A, p, k) == FullPivLu_new_imp(ViewValue(A), p, k)

\* ------------------------------------------------------------ Qr, ColPivQr
\* qr::no_pivoting::factor::recommended_blocksize, a black box
recommended_blocksize(m, n) == Min(Min(m, n), 2)

qr_no_pivoting_qr_in_place(A, bs, k) ==
    [fn |-> "qr::no_pivoting::factor::qr_in_place", input |-> A, ok |-> TRUE,
     err |-> NoErr,
     out |-> Gen(A.nrows, A.ncols, k.seed),
     Q_coeff |-> Gen(bs, Min(A.nrows, A.ncols), k.seed)]

Qr_new_imp(QR, p, k) ==
    LET m == QR.nrows
        n == QR.ncols
        blocksize == recommended_blocksize(m, n)
        kr == qr_no_pivoting_qr_in_place(QR, blocksize, k)
        sp == split_LU(kr.out)
        lg == << ParRead(p),
                 Query("qr::no_pivoting::factor::qr_in_place_scratch", <<m, n, blocksize>>, p),
                 Alloc,
                 Kernel("qr::no_pivoting::factor::qr_in_place", <<m, n, blocksize>>, p),
                 Free >>
    IN IF ~sp.ok
       THEN Ret("panic", NoErr, NoFact, lg \o <<CalleePanic("split_LU: copy shapes")>>, kr)
       ELSE Ret("ok", NoErr,
                [kind |-> "Qr", Q_basis |-> sp.L, Q_coeff |-> kr.Q_coeff, R |-> sp.U],
                lg \o <<Post("split_LU")>>, kr)

Qr_new(A, p, k) == Qr_new_imp(ViewValue(A), p, k)

qr_col_pivoting_qr_in_place(A, bs, k) ==
    [fn |-> "qr::col_pivoting::factor::qr_in_place", input |-> A, ok |-> TRUE,
     err |-> NoErr,
     out |-> Gen(A.nrows, A.ncols, k.seed),
     Q_coeff |-> Gen(bs, Min(A.nrows, A.ncols), k.seed),
     col_perm_fwd |-> RotFwd(A.ncols, k.seed),
     col_perm_bwd |-> RotBwd(A.ncols, k.seed)]

ColPivQr_new_imp(QR, p, k) ==
    LET m == QR.nrows
        n == QR.ncols
        blocksize == recommended_blocksize(m, n)
        kr == qr_col_pivoting_qr_in_place(QR, blocksize, k)
        sp == split_LU(kr.out)
        P == Perm_new_unchecked(BoxedSlice(kr.col_perm_fwd), BoxedSlice(kr.col_perm_bwd))
        lg == << ParRead(p),
                 Query("qr::col_pivoting::factor::qr_in_place_scratch", <<m, n, blocksize>>, p),
                 Alloc,
                 Kernel("qr::col_pivoting::factor::qr_in_place", <<m, n, blocksize>>, p),
                 Free >>
    IN IF ~sp.ok
       THEN Ret("panic", NoErr, NoFact, lg \o <<CalleePanic("split_LU: copy shapes")>>, kr)
       ELSE IF ~P.ok
       THEN Ret("panic", NoErr, NoFact, lg \o <<Post("split_LU")>>, kr)
       ELSE Ret("ok", NoErr,
                [kind |-> "ColPivQr", Q_basis |-> sp.L, Q_coeff |-> kr.Q_coeff, R |-> sp.U,
                 P |-> [forward |-> P.forward, inverse |-> P.inverse]],
                lg \o <<Post("split_LU")>>, kr)

ColPivQr_new(A, p, k) == ColPivQr_new_imp(ViewValue(A), p, k)


\* ------------------------------------------------------------------- Svd
\* svd::svd, a black box: it fills S, U and V or reports NoConvergence
svd_svd(A, ucols, vcols, k) ==
    [fn |-> "svd::svd", input |-> A, ok |-> k.ok,
     err |-> IF k.ok THEN NoErr ELSE [kind |-> "NoConvergence", index |-> 0],
     U |-> Gen(A.nrows, ucols, k.seed),
     V |-> Gen(A.ncols, vcols, k.seed + 1),
     S |-> GenDiag(Min(A.nrows, A.ncols), k.seed)]

\* Svd::new_imp conjugating U only
Svd_new_imp_ConjUOnly(A, cj, thin, p, k) ==
    LET size == Min(A.nrows, A.ncols)
        kr == svd_svd(A, IF thin THEN size ELSE A.nrows, IF thin THEN size ELSE A.ncols, k)
    IN IF ~kr.ok
       THEN Ret("err", kr.err, NoFact, <<ParRead(p)>>, kr)
       ELSE Ret("ok", NoErr,
                [kind |-> "Svd", U |-> IF cj = "Yes" THEN ConjMat(kr.U) ELSE kr.U,
                 V |-> kr.V, S |-> kr.S], <<ParRead(p)>>, kr)
Svd_new_imp(A, cj, thin, p, k) ==
    LET m == A.nrows
        n == A.ncols
        size == Min(m, n)
        compute == IF thin THEN "Thin" ELSE "Full"
        kr == svd_svd(A, IF thin THEN size ELSE m, IF thin THEN size ELSE n, k)
        lg == << ParRead(p),
                 Query("svd::svd_scratch", <<m, n, compute, compute>>, p),
                 Alloc,
                 Kernel("svd::svd", <<m, n, compute, compute>>, p),
                 Free >>
    IN IF ~kr.ok
       THEN Ret("err", kr.err, NoFact, lg, kr)
       ELSE IF cj = "Yes"
       THEN Ret("ok", NoErr,
                [kind |-> "Svd", U |-> ConjMat(kr.U), V |-> ConjMat(kr.V), S |-> kr.S],
                lg \o <<Post("conjugate U"), Post("conjugate V")>>, kr)
       ELSE Ret("ok", NoErr,
                [kind |-> "Svd", U |-> kr.U, V |-> kr.V, S |-> kr.S], lg, kr)

Svd_new(A, p, k) == Svd_new_imp(A.mat, A.conj, FALSE, p, k)
\* Svd::new_thin asking for the full factors
Svd_new_thin_Full(A, p, k) == Svd_new_imp(A.mat, A.conj, FALSE, p, k)
Svd_new_thin(A, p, k) == Svd_new_imp(A.mat, A.conj, TRUE, p, k)

\* ------------------------------------------------------ SelfAdjointEigen
evd_self_adjoint_evd(A, k) ==
    [fn |-> "evd::self_adjoint_evd", input |-> A, ok |-> k.ok,
     err |-> IF k.ok THEN NoErr ELSE [kind |-> "NoConvergence", index |-> 0],
     U |-> Gen(A.nrows, A.nrows, k.seed),
     S |-> GenDiag(A.nrows, k.seed)]

SelfAdjointEigen_new_imp(A, cj, p, k) ==
    LET n == A.nrows
        kr == evd_self_adjoint_evd(A, k)
        lg == << ParRead(p),
                 Query("evd::self_adjoint_evd_scratch", <<n, "Yes">>, p),
                 Alloc,
                 Kernel("evd::self_adjoint_evd", <<n, "Yes">>, p),
                 Free >>
    IN IF ~kr.ok
       THEN Ret("err", kr.err, NoFact, lg, kr)
       ELSE IF cj = "Yes"
       THEN Ret("ok", NoErr,
                [kind |-> "SelfAdjointEigen", U |-> ConjMat(kr.U), S |-> kr.S],
                lg \o <<Post("conjugate U")>>, kr)
       ELSE Ret("ok", NoErr,
                [kind |-> "SelfAdjointEigen", U |-> kr.U, S |-> kr.S], lg, kr)

SelfAdjointEigen_new(A, side, p, k) ==
    IF A.mat.nrows # A.mat.ncols
    THEN Ret("panic", NoErr, NoFact, <<Check("A.nrows() == A.ncols()")>>, NoKern)
    ELSE IF side = "Lower"
    THEN SelfAdjointEigen_new_imp(A.mat, A.conj, p, k)
    ELSE SelfAdjointEigen_new_imp(ViewAdjoint(A).mat, ViewAdjoint(A).conj, p, k)

\* ----------------------------------------------------------------- Eigen
evd_evd_cplx(A, k) ==
    [fn |-> "evd::evd_cplx", input |-> A, ok |-> k.ok,
     err |-> IF k.ok THEN NoErr ELSE [kind |-> "NoConvergence", index |-> 0],
     U |-> Gen(A.nrows, A.nrows, k.seed),
     S |-> [len |-> A.nrows,
            d |-> [i \in 0 .. A.nrows - 1 |-> C(i + k.seed, i + 1)]]]

Eigen_new_imp(A, cj, p, k) ==
    LET n == A.nrows
        kr == evd_evd_cplx(A, k)
        lg == << ParRead(p),
                 Query("evd::evd_scratch", <<n, "No", "Yes">>, p),
                 Alloc,
                 Kernel("evd::evd_cplx", <<n, "No", "Yes">>, p),
                 Free >>
    IN IF ~kr.ok
       THEN Ret("err", kr.err, NoFact, lg, kr)
       ELSE IF cj = "Yes"
       THEN Ret("ok", NoErr, [kind |-> "Eigen", U |-> ConjMat(kr.U), S |-> kr.S],
                lg \o <<Post("conjugate U")>>, kr)
       ELSE Ret("ok", NoErr, [kind |-> "Eigen", U |-> kr.U, S |-> kr.S], lg, kr)

Eigen_new(A, p, k) ==
    IF A.mat.nrows # A.mat.ncols
    THEN Ret("panic", NoErr, NoFact, <<Check("A.nrows() == A.ncols()")>>, NoKern)
    ELSE Eigen_new_imp(A.mat, A.conj, p, k)


\* -------------------------------------------------- Eigen::new_from_real
\* The real driver stores a complex-conjugate pair of eigenvalues at two
\* adjacent indices j, j+1 (imaginary parts +b, -b, same real part).
RECURSIVE WellPaired(_, _, _)
WellPaired(f, j, n) ==
    IF j >= n THEN TRUE
    ELSE IF f[j] = 0 THEN WellPaired(f, j + 1, n)
    ELSE j + 1 < n /\ f[j] > 0 /\ f[j + 1] = -f[j] /\ WellPaired(f, j + 2, n)
PairedPatterns(n) == {f \in [0 .. n - 1 -> {-1, 0, 1}] : WellPaired(f, 0, n)}
EvdRealChoices(n) == [ok : BOOLEAN, seed : 1 .. MaxSeed, pat : PairedPatterns(n)]

\* evd::evd_real, a black box: S_re, S_im and U_real are real
evd_evd_real(A, k) ==
    [fn |-> "evd::evd_real", input |-> A, ok |-> k.ok,
     err |-> IF k.ok THEN NoErr ELSE [kind |-> "NoConvergence", index |-> 0],
     S_re |-> [i \in 0 .. A.nrows - 1 |->
                 IF k.pat[i] < 0 THEN R(k.seed + i - 1) ELSE R(k.seed + i)],
     S_im |-> [i \in 0 .. A.nrows - 1 |-> R(k.pat[i] * (k.seed + 1))],
     U_real |-> GenReal(A.nrows, A.nrows, k.seed)]

\* one pass of `for i in 0..n { U[(i, j)] = Complex::new(re[i], im[i]) }`
WriteCol(U, j, re, im) ==
    [U EXCEPT !.d = [p \in DOMAIN U.d |->
        IF p[2] = j THEN ComplexNew(re[p[1]], im[p[1]]) ELSE U.d[p]]]

\* the body of the pair branch, lines 748-751: both assignments of the loop
\* body target U[(i, j)]
UnpackPairColumns(U, U_real, j) ==
    LET re == [i \in 0 .. U.nrows - 1 |-> U_real.d[<<i, j>>]]
        imPlus == [i \in 0 .. U.nrows - 1 |-> U_real.d[<<i, j + 1>>]]
        imMinus == [i \in 0 .. U.nrows - 1 |-> RNeg(U_real.d[<<i, j + 1>>])]
    IN WriteCol(WriteCol(U, j, re, imPlus), j, re, imMinus)

\* the pair's second eigenvalue written without negating the imaginary part
UnpackPairValues_NoNeg(S, S_re, S_im, j) ==
    [S EXCEPT !.d[j] = ComplexNew(S_re[j], S_im[j]),
              !.d[j + 1] = ComplexNew(S_re[j], S_im[j])]

\* lines 745-746: the two eigenvalues of a pair
UnpackPairValues(S, S_re, S_im, j) ==
    [S EXCEPT !.d[j] = ComplexNew(S_re[j], S_im[j]),
              !.d[j + 1] = ComplexNew(S_re[j], RNeg(S_im[j]))]

\* the while loop of lines 734-755; oob records an index past the end, wr
\* the indices of S written so far, in order, and hi the largest index used
\* (-1 before the first)
RECURSIVE UnpackLoop(_, _, _, _, _, _)
UnpackLoop(j, n, S_re, S_im, U_real, acc) ==
    IF ~(j < n) THEN [acc EXCEPT !.j = j]
    ELSE IF S_im[j] = RZero
    THEN LET re == [i \in 0 .. n - 1 |-> U_real.d[<<i, j>>]]
             im == [i \in 0 .. n - 1 |-> RZero]
         IN UnpackLoop(j + 1, n, S_re, S_im, U_real,
               [acc EXCEPT !.S.d[j] = ComplexNew(S_re[j], RZero),
                           !.U = WriteCol(acc.U, j, re, im),
                           !.wr = Append(acc.wr, j), !.hi = j])
    ELSE IF ~(j + 1 < n)
    THEN \* S[j] is written, then S[j + 1] is past the end
         [acc EXCEPT !.j = j, !.oob = TRUE, !.wr = Append(acc.wr, j), !.hi = j + 1]
    ELSE UnpackLoop(j + 2, n, S_re, S_im, U_real,
               [acc EXCEPT !.S = UnpackPairValues(acc.S, S_re, S_im, j),
                           !.U = UnpackPairColumns(acc.U, U_real, j),
                           !.wr = acc.wr \o <<j, j + 1>>, !.hi = j + 1])
\* the state of the loop before its first pass
UnpackStart(n) ==
    [U |-> MatZeros(n, n), S |-> DiagZeros(n), j |-> 0, oob |-> FALSE, wr |-> <<>>, hi |-> -1]

\* the constructor as it would be if an index past the end went unnoticed
Eigen_new_from_real_Unchecked(A, p, k) ==
    LET n == A.mat.nrows
        kr == evd_evd_real(A.mat, k)
        un == UnpackLoop(0, n, kr.S_re, kr.S_im, kr.U_real, UnpackStart(n))
    IN IF A.mat.nrows # A.mat.ncols
       THEN Ret("panic", NoErr, NoFact, <<Check("A.nrows() == A.ncols()")>>, NoKern)
       ELSE IF ~kr.ok
       THEN Ret("err", kr.err, NoFact,
                <<ParRead(p), Query("evd::evd_scratch", <<n, "No", "Yes">>, p), Alloc,
                  Kernel("evd::evd_real", <<n, "No", "Yes">>, p), Free>>, kr)
       ELSE Ret("ok", NoErr, [kind |-> "Eigen", U |-> un.U, S |-> un.S],
                <<ParRead(p), Query("evd::evd_scratch", <<n, "No", "Yes">>, p), Alloc,
                  Kernel("evd::evd_real", <<n, "No", "Yes">>, p), Free, Post("unpack")>>, kr)

Eigen_new_from_real(A, p, k) ==
    IF A.mat.nrows # A.mat.ncols
    THEN Ret("panic", NoErr, NoFact, <<Check("A.nrows() == A.ncols()")>>, NoKern)
    ELSE
    LET n == A.mat.nrows
        kr == evd_evd_real(A.mat, k)
        lg == << ParRead(p),
                 Query("evd::evd_scratch", <<n, "No", "Yes">>, p),
                 Alloc,
                 Kernel("evd::evd_real", <<n, "No", "Yes">>, p),
                 Free >>
        un == UnpackLoop(0, n, kr.S_re, kr.S_im, kr.U_real, UnpackStart(n))
    IN IF ~kr.ok
       THEN Ret("err", kr.err, NoFact, lg, kr)
       ELSE IF un.oob
       THEN Ret("panic", NoErr, NoFact, lg \o <<Post("unpack"), CalleePanic("index out of bounds")>>, kr)
       ELSE Ret("ok", NoErr, [kind |-> "Eigen", U |-> un.U, S |-> un.S],
                lg \o <<Post("unpack")>>, kr)

\* -------------------------------------------------------------- ShapeCore
nrows(F) ==
    CASE F.kind \in {"Cholesky", "Ldlt", "Lblt", "PartialPivLu", "FullPivLu"} -> F.L.nrows
      [] F.kind \in {"Qr", "ColPivQr"} -> F.Q_basis.nrows
      [] F.kind \in {"Svd", "SelfAdjointEigen", "Eigen"} -> F.U.nrows
\* ncols() reading the column count of the last stored factor for every kind
ncols_LastFactorCols(F) ==
    CASE F.kind \in {"Cholesky", "Ldlt", "Lblt"} -> F.L.ncols
      [] F.kind \in {"PartialPivLu", "FullPivLu"} -> F.U.ncols
      [] F.kind \in {"Qr", "ColPivQr"} -> F.R.ncols
      [] F.kind = "Svd" -> F.V.ncols
      [] F.kind \in {"SelfAdjointEigen", "Eigen"} -> F.U.nrows
ncols(F) ==
    CASE F.kind \in {"Cholesky", "Ldlt", "Lblt"} -> F.L.ncols
      [] F.kind \in {"PartialPivLu", "FullPivLu"} -> F.U.ncols
      [] F.kind \in {"Qr", "ColPivQr"} -> F.R.ncols
      [] F.kind = "Svd" -> F.V.nrows
      [] F.kind \in {"SelfAdjointEigen", "Eigen"} -> F.U.nrows

\* ------------------------------------------------- black boxes used by ops
NoMat == MatZeros(0, 0)
OpRet(r, lg, X, O) == [res |-> r, log |-> lg, rhs |-> X, out |-> O]

\* what a solve kernel leaves in rhs: a fixed function of conj, rhs and the
\* stored factor (w stands for the factor)
BlackBoxSolve(cj, X, w) ==
    [X EXCEPT !.d = [q \in DOMAIN X.d |-> CAdd(ApplyConj(cj, X.d[q]), w)]]
\* what a reconstruct or inverse kernel writes: neither symmetric nor real on
\* the diagonal in general
BlackBoxDense(m, n, w) ==
    [nrows |-> m, ncols |-> n,
     d |-> [q \in Idx(m, n) |-> CAdd(C(3 * q[1] + q[2], q[2] - q[1] + 1), w)]]

\* a delegating solve that runs its kernel sequentially whatever was read
KernelSolveCall_SeqKernel(lg0, qfn, kfn, dims, n, cj, X, p, w) ==
    LET lg == lg0 \o << Query(qfn, dims, p), Alloc,
                        Kernel(kfn, dims \o <<cj>>, "Seq") >>
    IN IF X.nrows # n
       THEN OpRet("panic", lg \o <<CalleePanic(kfn), Free>>, X, NoMat)
       ELSE OpRet("ok", lg \o <<Free>>, BlackBoxSolve(cj, X, w), NoMat)
\* scratch query, allocation and kernel call of a delegating solve; the
\* kernel asserts rhs.nrows() == n itself
KernelSolveCall(lg0, qfn, kfn, dims, n, cj, X, p, w) ==
    LET lg == lg0 \o << Query(qfn, dims, p), Alloc,
                        Kernel(kfn, dims \o <<cj>>, p) >>
    IN IF X.nrows # n
       THEN OpRet("panic", lg \o <<CalleePanic(kfn), Free>>, X, NoMat)
       ELSE OpRet("ok", lg \o <<Free>>, BlackBoxSolve(cj, X, w), NoMat)

\* scratch query, allocation and kernel call of a delegating reconstruct or
\* inverse
KernelDenseCall(lg0, qfn, kfn, dims, m, n, p, w) ==
    [res |-> "ok",
     log |-> lg0 \o <<Query(qfn, dims, p), Alloc, Kernel(kfn, dims, p), Free>>,
     out |-> BlackBoxDense(m, n, w)]

\* matmul / matmul_with_conj: dst = op(lhs) * op(rhs); the three shapes must
\* fit
MatmulShapesOk(dst, lhs, rhs) ==
    dst.nrows = lhs.nrows /\ dst.ncols = rhs.ncols /\ lhs.ncols = rhs.nrows
RECURSIVE Dot(_, _, _, _, _, _, _)
Dot(lhs, cl, rhs, cr, i, j, t) ==
    IF t = 0 THEN zero
    ELSE CAdd(Dot(lhs, cl, rhs, cr, i, j, t - 1),
              CMul(ApplyConj(cl, lhs.d[<<i, t - 1>>]), ApplyConj(cr, rhs.d[<<t - 1, j>>])))
\* M itself, its table of entries evaluated once rather than at every use
Stored(M) == IF M.d = M.d THEN M ELSE M
matmul_with_conj(lhs, cl, rhs, cr) ==
    LET a == Stored(lhs)
        b == Stored(rhs)
    IN [nrows |-> a.nrows, ncols |-> b.ncols,
        d |-> [q \in Idx(a.nrows, b.ncols) |-> Dot(a, cl, b, cr, q[1], q[2], a.ncols)]]
MatmulEv(dst, lhs, cl, rhs, cr, p) ==
    Ev("matmul", "matmul_with_conj",
       <<dst.nrows, dst.ncols, lhs.nrows, lhs.ncols, rhs.nrows, rhs.ncols, cl, cr>>, p)

\* ------------------------------------------------------ make_self_adjoint
\* for i in 0..j { A[(i, j)] = conj(A[(j, i)]) }, from i on
RECURSIVE MirrorColumn(_, _, _)
MirrorColumn(M, j, i) ==
    IF i >= j THEN M
    ELSE MirrorColumn([M EXCEPT !.d[<<i, j>>] = conj(M.d[<<j, i>>])], j, i + 1)
\* a loop that mirrors the column and leaves the diagonal entry as it is
RECURSIVE SelfAdjointLoop_KeepDiag(_, _)
SelfAdjointLoop_KeepDiag(M, j) ==
    IF j >= M.nrows THEN M
    ELSE SelfAdjointLoop_KeepDiag(MirrorColumn(M, j, 0), j + 1)
\* for j in 0..n { A[(j, j)] = from_real(real(A[(j, j)])); ... }, from j on
RECURSIVE SelfAdjointLoop(_, _)
SelfAdjointLoop(M, j) ==
    IF j >= M.nrows THEN M
    ELSE SelfAdjointLoop(
             MirrorColumn([M EXCEPT !.d[<<j, j>>] = from_real(real(M.d[<<j, j>>]))], j, 0),
             j + 1)
\* the buffer A is changed in place; a failed assert! leaves it as it was
make_self_adjoint(M) ==
    IF M.nrows # M.ncols
    THEN [res |-> "panic", A |-> M]
    ELSE [res |-> "ok", A |-> SelfAdjointLoop(M, 0)]

\* reconstruct() / inverse() of Cholesky, Ldlt and Lblt: the kernel's result,
\* then make_self_adjoint
SelfAdjointDense(r) ==
    [res |-> r.res,
     log |-> SubSeq(r.log, 1, Len(r.log) - 1) \o <<Post("make_self_adjoint"), Free>>,
     out |-> make_self_adjoint(r.out).A]

\* ------------------------------------------- SolveCore for Cholesky/Ldlt/Lblt
Cholesky_solve_in_place_with_conj(F, cj, X, p) ==
    KernelSolveCall(<<ParRead(p)>>, "llt::solve::solve_in_place_scratch",
                    "llt::solve::solve_in_place_with_conj",
                    <<F.L.nrows, X.ncols>>, F.L.nrows, cj, X, p, At(F.L, 0, 0))
\* the transpose solve handing conj to the kernel as it came
Cholesky_solve_transpose_NoCompose(F, cj, X, p) ==
    Cholesky_solve_in_place_with_conj(F, cj, X, p)
Cholesky_solve_transpose_in_place_with_conj(F, cj, X, p) ==
    KernelSolveCall(<<ParRead(p)>>, "llt::solve::solve_in_place_scratch",
                    "llt::solve::solve_in_place_with_conj",
                    <<F.L.nrows, X.ncols>>, F.L.nrows, Compose(cj, "Yes"), X, p, At(F.L, 0, 0))
Cholesky_reconstruct(F, p) ==
    SelfAdjointDense(KernelDenseCall(<<ParRead(p)>>, "llt::reconstruct::reconstruct_scratch",
        "llt::reconstruct::reconstruct", <<F.L.nrows>>, F.L.nrows, F.L.nrows, p, At(F.L, 0, 0)))
Cholesky_inverse(F, p) ==
    SelfAdjointDense(KernelDenseCall(<<ParRead(p)>>, "llt::inverse::inverse_scratch",
        "llt::inverse::inverse", <<F.L.nrows>>, F.L.nrows, F.L.nrows, p, At(F.L, 0, 0)))

Ldlt_solve_in_place_with_conj(F, cj, X, p) ==
    KernelSolveCall(<<ParRead(p)>>, "ldlt::solve::solve_in_place_scratch",
                    "ldlt::solve::solve_in_place_with_conj",
                    <<F.L.nrows, X.ncols>>, F.L.nrows, cj, X, p, F.D.d[0])
Ldlt_solve_transpose_in_place_with_conj(F, cj, X, p) ==
    KernelSolveCall(<<ParRead(p)>>, "ldlt::solve::solve_in_place_scratch",
                    "ldlt::solve::solve_in_place_with_conj",
                    <<F.L.nrows, X.ncols>>, F.L.nrows, Compose(cj, "Yes"), X, p, F.D.d[0])
Ldlt_reconstruct(F, p) ==
    SelfAdjointDense(KernelDenseCall(<<ParRead(p)>>, "ldlt::reconstruct::reconstruct_scratch",
        "ldlt::reconstruct::reconstruct", <<F.L.nrows>>, F.L.nrows, F.L.nrows, p, F.D.d[0]))
Ldlt_inverse(F, p) ==
    SelfAdjointDense(KernelDenseCall(<<ParRead(p)>>, "ldlt::inverse::inverse_scratch",
        "ldlt::inverse::inverse", <<F.L.nrows>>, F.L.nrows, F.L.nrows, p, F.D.d[0]))

Lblt_solve_in_place_with_conj(F, cj, X, p) ==
    KernelSolveCall(<<ParRead(p)>>, "bunch_kaufman::solve::solve_in_place_scratch",
                    "bunch_kaufman::solve::solve_in_place_with_conj",
                    <<F.L.nrows, X.ncols>>, F.L.nrows, cj, X, p, F.B_diag.d[0])
Lblt_solve_transpose_in_place_with_conj(F, cj, X, p) ==
    KernelSolveCall(<<ParRead(p)>>, "bunch_kaufman::solve::solve_in_place_scratch",
                    "bunch_kaufman::solve::solve_in_place_with_conj",
                    <<F.L.nrows, X.ncols>>, F.L.nrows, Compose(cj, "Yes"), X, p, F.B_diag.d[0])
Lblt_reconstruct(F, p) ==
    SelfAdjointDense(KernelDenseCall(<<ParRead(p)>>,
        "bunch_kaufman::reconstruct::reconstruct_scratch",
        "bunch_kaufman::reconstruct::reconstruct", <<F.L.nrows>>, F.L.nrows, F.L.nrows, p,
        F.B_diag.d[0]))
Lblt_inverse(F, p) ==
    SelfAdjointDense(KernelDenseCall(<<ParRead(p)>>, "bunch_kaufman::inverse::inverse_scratch",
        "bunch_kaufman::inverse::inverse", <<F.L.nrows>>, F.L.nrows, F.L.nrows, p,
        F.B_diag.d[0]))

\* -------------------------------- PartialPivLu, FullPivLu, Qr, ColPivQr
\* the four share one shape: assert, then delegate to the kernel named by
\* pre (e.g. "lu::partial_pivoting")
SquareSolve(F, pre, kname, dims, cj, X, p, w) ==
    IF ~(nrows(F) = ncols(F) /\ nrows(F) = X.nrows)
    THEN OpRet("panic", <<ParRead(p), Check("nrows == ncols, nrows == rhs.nrows")>>, X, NoMat)
    ELSE KernelSolveCall(<<ParRead(p)>>, pre \o "::solve::" \o kname \o "_scratch",
                         pre \o "::solve::" \o kname \o "_with_conj",
                         dims, nrows(F), cj, X, p, w)
SquareSolveTranspose(F, pre, dims, cj, X, p, w) ==
    IF ~(nrows(F) = ncols(F) /\ ncols(F) = X.nrows)
    THEN OpRet("panic", <<ParRead(p), Check("nrows == ncols, ncols == rhs.nrows")>>, X, NoMat)
    ELSE KernelSolveCall(<<ParRead(p)>>, pre \o "::solve::solve_transpose_in_place_scratch",
                         pre \o "::solve::solve_transpose_in_place_with_conj",
                         dims, nrows(F), cj, X, p, w)
LstsqSolve(F, pre, dims, cj, X, p, w) ==
    IF ~(nrows(F) = X.nrows /\ nrows(F) >= ncols(F))
    THEN OpRet("panic", <<ParRead(p), Check("nrows == rhs.nrows, nrows >= ncols")>>, X, NoMat)
    ELSE KernelSolveCall(<<ParRead(p)>>, pre \o "::solve::solve_lstsq_in_place_scratch",
                         pre \o "::solve::solve_lstsq_in_place_with_conj",
                         dims, nrows(F), cj, X, p, w)
DenseReconstruct(F, pre, dims, p, w) ==
    KernelDenseCall(<<ParRead(p)>>, pre \o "::reconstruct::reconstruct_scratch",
                    pre \o "::reconstruct::reconstruct", dims, nrows(F), ncols(F), p, w)
DenseInverse(F, pre, dims, p, w) ==
    IF nrows(F) # ncols(F)
    THEN [res |-> "panic", log |-> <<ParRead(p), Check("nrows == ncols")>>, out |-> NoMat]
    ELSE KernelDenseCall(<<ParRead(p)>>, pre \o "::inverse::inverse_scratch",
                         pre \o "::inverse::inverse", dims, ncols(F), ncols(F), p, w)

Prefix(F) ==
    CASE F.kind = "PartialPivLu" -> "lu::partial_pivoting"
      [] F.kind = "FullPivLu" -> "lu::full_pivoting"
      [] F.kind = "Qr" -> "qr::no_pivoting"
      [] F.kind = "ColPivQr" -> "qr::col_pivoting"
\* the stored factor the kernel is handed
Factor(F) ==
    CASE F.kind \in {"PartialPivLu", "FullPivLu"} -> At(F.U, 0, 0)
      [] F.kind \in {"Qr", "ColPivQr"} -> At(F.R, 0, 0)

\* the blocksize argument of the QR kernels' scratch queries (Q_coeff.nrows());
\* the LU kernels take none
Blocksize(F) == IF F.kind \in {"Qr", "ColPivQr"} THEN <<F.Q_coeff.nrows>> ELSE <<>>

\* ------------------------------------------------- Svd, SelfAdjointEigen
\* tmp := op(L1) * rhs; tmp[i, :] *= recip(real(S[i])); dst := op(L2) * tmp,
\* where dst is the matrix the second product is written to (size rows of
\* tmp, k columns)
ScaleRows(T, S) ==
    [T EXCEPT !.d = [q \in DOMAIN T.d |-> mul_real(T.d[q], RRecip(real(S.d[q[1]])))]]
TwoMatmulSolve(lg0, L1, c1, X, size, S, L2, c2, dst, p) ==
    LET tmp0 == MatZeros(size, X.ncols)
        ev1 == MatmulEv(tmp0, L1, c1, X, "No", p)
        tmp == ScaleRows(matmul_with_conj(L1, c1, X, "No"), S)
        ev2 == MatmulEv(dst, L2, c2, tmp0, "No", p)
    IN IF ~MatmulShapesOk(tmp0, L1, X)
       THEN OpRet("panic", lg0 \o <<ev1, CalleePanic("matmul_with_conj")>>, X, NoMat)
       ELSE IF ~MatmulShapesOk(dst, L2, tmp0)
       THEN OpRet("panic", lg0 \o <<ev1, Post("scale rows by 1/S"), ev2,
                                    CalleePanic("matmul_with_conj")>>, X, NoMat)
       ELSE OpRet("ok", lg0 \o <<ev1, Post("scale rows by 1/S"), ev2>>,
                  matmul_with_conj(L2, c2, tmp, "No"), NoMat)

Svd_solve_in_place_with_conj(F, cj, X, p) ==
    IF ~(nrows(F) = ncols(F) /\ nrows(F) = X.nrows)
    THEN OpRet("panic", <<ParRead(p), Check("nrows == ncols, nrows == rhs.nrows")>>, X, NoMat)
    ELSE TwoMatmulSolve(<<ParRead(p)>>, Transpose(F.U), Compose(cj, "Yes"), X, nrows(F),
                        F.S, F.V, cj, X, p)
\* the transpose solve with U and V in the places they have in the plain solve
Svd_solve_transpose_Unswapped(F, cj, X, p) == Svd_solve_in_place_with_conj(F, cj, X, p)
Svd_solve_transpose_in_place_with_conj(F, cj, X, p) ==
    IF ~(nrows(F) = ncols(F) /\ ncols(F) = X.nrows)
    THEN OpRet("panic", <<ParRead(p), Check("nrows == ncols, ncols == rhs.nrows")>>, X, NoMat)
    ELSE TwoMatmulSolve(<<ParRead(p)>>, Transpose(F.V), cj, X, nrows(F),
                        F.S, F.U, Compose(cj, "Yes"), X, p)
\* the least-squares entry check without `nrows >= ncols`
Svd_solve_lstsq_NoTallCheck(F, cj, X, p) ==
    IF ~(nrows(F) = X.nrows)
    THEN OpRet("panic", <<ParRead(p), Check("nrows == rhs.nrows")>>, X, NoMat)
    ELSE LET size == Min(nrows(F), ncols(F))
             U == GetCols(F.U, size)
             V == GetCols(F.V, size)
         IN TwoMatmulSolve(<<ParRead(p)>>, Transpose(U), Compose(cj, "Yes"), X, size,
                           F.S, V, cj, X, p)
Svd_solve_lstsq_in_place_with_conj(F, cj, X, p) ==
    IF ~(nrows(F) = X.nrows /\ nrows(F) >= ncols(F))
    THEN OpRet("panic", <<ParRead(p), Check("nrows == rhs.nrows, nrows >= ncols")>>, X, NoMat)
    ELSE LET size == Min(nrows(F), ncols(F))
             U == GetCols(F.U, size)
             V == GetCols(F.V, size)
         IN TwoMatmulSolve(<<ParRead(p)>>, Transpose(U), Compose(cj, "Yes"), X, size,
                           F.S, V, cj, X, p)

\* out := (M1 with column j scaled by s(j)) * adjoint(M2)
ScaleCols(M, s) ==
    [M EXCEPT !.d = [q \in DOMAIN M.d |-> mul_real(M.d[q], s[q[2]])]]
ScaledProduct(lg0, M1, s, M2, m, n, p) ==
    LET out0 == MatZeros(m, n)
        lhs == ScaleCols(M1, s)
        rhs == Adjoint(M2)
        ev == Ev("matmul", "matmul",
                 <<out0.nrows, out0.ncols, lhs.nrows, lhs.ncols, rhs.nrows, rhs.ncols>>, p)
    IN IF ~MatmulShapesOk(out0, lhs, rhs)
       THEN [res |-> "panic", log |-> lg0 \o <<Post("scale columns"), ev, CalleePanic("matmul")>>,
             out |-> NoMat]
       ELSE [res |-> "ok", log |-> lg0 \o <<Post("scale columns"), ev>>,
             out |-> matmul_with_conj(lhs, "No", rhs, "No")]

\* Svd::reconstruct multiplying all of U and V, not their leading columns
Svd_reconstruct_Untrimmed(F, p) ==
    ScaledProduct(<<ParRead(p)>>, F.U, [j \in DOMAIN F.S.d |-> real(F.S.d[j])], F.V,
                  nrows(F), ncols(F), p)
Svd_reconstruct(F, p) ==
    LET m == nrows(F)
        n == ncols(F)
        size == Min(m, n)
        s == [j \in DOMAIN F.S.d |-> real(F.S.d[j])]
    IN ScaledProduct(<<ParRead(p)>>, GetCols(F.U, size), s, GetCols(F.V, size), m, n, p)
Svd_inverse(F, p) ==
    IF nrows(F) # ncols(F)
    THEN [res |-> "panic", log |-> <<ParRead(p), Check("nrows == ncols")>>, out |-> NoMat]
    ELSE LET n == nrows(F)
             s == [j \in DOMAIN F.S.d |-> RRecip(real(F.S.d[j]))]
         IN ScaledProduct(<<ParRead(p)>>, F.V, s, F.U, n, n, p)

SelfAdjointEigen_solve_in_place_with_conj(F, cj, X, p) ==
    IF ~(nrows(F) = ncols(F) /\ nrows(F) = X.nrows)
    THEN OpRet("panic", <<ParRead(p), Check("nrows == ncols, nrows == rhs.nrows")>>, X, NoMat)
    ELSE TwoMatmulSolve(<<ParRead(p)>>, Transpose(F.U), Compose(cj, "Yes"), X, nrows(F),
                        F.S, F.U, cj, X, p)
SelfAdjointEigen_solve_transpose_in_place_with_conj(F, cj, X, p) ==
    IF ~(nrows(F) = ncols(F) /\ ncols(F) = X.nrows)
    THEN OpRet("panic", <<ParRead(p), Check("nrows == ncols, ncols == rhs.nrows")>>, X, NoMat)
    ELSE TwoMatmulSolve(<<ParRead(p)>>, Transpose(F.U), cj, X, nrows(F),
                        F.S, F.U, Compose(cj, "Yes"), X, p)
SelfAdjointEigen_reconstruct(F, p) ==
    LET m == nrows(F)
        n == ncols(F)
        size == Min(m, n)
        s == [j \in DOMAIN F.S.d |-> real(F.S.d[j])]
    IN ScaledProduct(<<ParRead(p)>>, GetCols(F.U, size), s, GetCols(F.U, size), m, n, p)
SelfAdjointEigen_inverse(F, p) ==
    IF nrows(F) # ncols(F)
    THEN [res |-> "panic", log |-> <<ParRead(p), Check("nrows == ncols")>>, out |-> NoMat]
    ELSE LET n == nrows(F)
             s == [j \in DOMAIN F.S.d |-> RRecip(real(F.S.d[j]))]
         IN ScaledProduct(<<ParRead(p)>>, F.U, s, F.U, n, n, p)

\* ---------------------------------------------- trait dispatch on the kind
SolveKinds == {"Cholesky", "Ldlt", "Lblt", "PartialPivLu", "FullPivLu", "Qr", "ColPivQr",
               "Svd", "SelfAdjointEigen"}
LstsqKinds == {"Qr", "ColPivQr", "Svd"}
solve_in_place_with_conj(F, cj, X, p) ==
    CASE F.kind = "Cholesky" -> Cholesky_solve_in_place_with_conj(F, cj, X, p)
      [] F.kind = "Ldlt" -> Ldlt_solve_in_place_with_conj(F, cj, X, p)
      [] F.kind = "Lblt" -> Lblt_solve_in_place_with_conj(F, cj, X, p)
      [] F.kind \in {"PartialPivLu", "FullPivLu", "Qr", "ColPivQr"} ->
            SquareSolve(F, Prefix(F), "solve_in_place",
                        <<nrows(F)>> \o Blocksize(F) \o <<X.ncols>>, cj, X, p, Factor(F))
      [] F.kind = "Svd" -> Svd_solve_in_place_with_conj(F, cj, X, p)
      [] F.kind = "SelfAdjointEigen" -> SelfAdjointEigen_solve_in_place_with_conj(F, cj, X, p)
solve_transpose_in_place_with_conj(F, cj, X, p) ==
    CASE F.kind = "Cholesky" -> Cholesky_solve_transpose_in_place_with_conj(F, cj, X, p)
      [] F.kind = "Ldlt" -> Ldlt_solve_transpose_in_place_with_conj(F, cj, X, p)
      [] F.kind = "Lblt" -> Lblt_solve_transpose_in_place_with_conj(F, cj, X, p)
      [] F.kind \in {"PartialPivLu", "FullPivLu", "Qr", "ColPivQr"} ->
            SquareSolveTranspose(F, Prefix(F), <<nrows(F)>> \o Blocksize(F) \o <<X.ncols>>,
                                 cj, X, p, Factor(F))
      [] F.kind = "Svd" -> Svd_solve_transpose_in_place_with_conj(F, cj, X, p)
      [] F.kind = "SelfAdjointEigen" ->
            SelfAdjointEigen_solve_transpose_in_place_with_conj(F, cj, X, p)
solve_lstsq_in_place_with_conj(F, cj, X, p) ==
    CASE F.kind \in {"Qr", "ColPivQr"} ->
            LstsqSolve(F, Prefix(F), <<nrows(F), ncols(F)>> \o Blocksize(F) \o <<X.ncols>>,
                       cj, X, p, Factor(F))
      [] F.kind = "Svd" -> Svd_solve_lstsq_in_place_with_conj(F, cj, X, p)
reconstruct(F, p) ==
    CASE F.kind = "Cholesky" -> Cholesky_reconstruct(F, p)
      [] F.kind = "Ldlt" -> Ldlt_reconstruct(F, p)
      [] F.kind = "Lblt" -> Lblt_reconstruct(F, p)
      [] F.kind \in {"PartialPivLu", "FullPivLu", "Qr", "ColPivQr"} ->
            DenseReconstruct(F, Prefix(F), <<nrows(F), ncols(F)>> \o Blocksize(F), p, Factor(F))
      [] F.kind = "Svd" -> Svd_reconstruct(F, p)
      [] F.kind = "SelfAdjointEigen" -> SelfAdjointEigen_reconstruct(F, p)
inverse(F, p) ==
    CASE F.kind = "Cholesky" -> Cholesky_inverse(F, p)
      [] F.kind = "Ldlt" -> Ldlt_inverse(F, p)
      [] F.kind = "Lblt" -> Lblt_inverse(F, p)
      [] F.kind \in {"PartialPivLu", "FullPivLu", "Qr", "ColPivQr"} ->
            DenseInverse(F, Prefix(F), <<ncols(F)>> \o Blocksize(F), p, Factor(F))
      [] F.kind = "Svd" -> Svd_inverse(F, p)
      [] F.kind = "SelfAdjointEigen" -> SelfAdjointEigen_inverse(F, p)

\* ------------------------------ column-pivoted QR: reconstruct(out, ...)
\* the elementary reflector I - v * recip(tau) * v^H that column j of
\* Q_basis (unit diagonal implied) and entry j of Q_coeff stand for
Reflector(Q_basis, Q_coeff, cj, j) ==
    LET m == Q_basis.nrows
        v == [i \in 0 .. m - 1 |->
                IF i < j THEN zero
                ELSE IF i = j THEN one ELSE ApplyConj(cj, Q_basis.d[<<i, j>>])]
        tau_inv == RRecip(real(Q_coeff.d[<<0, j>>]))
    IN [nrows |-> m, ncols |-> m,
        d |-> [q \in Idx(m, m) |->
                 CAdd(IF q[1] = q[2] THEN one ELSE zero,
                      mul_real(CMul(v[q[1]], conj(v[q[2]])), RNeg(tau_inv)))]]
\* H_j * H_(j+1) * ... * H_(size-1) * M
RECURSIVE ApplyReflectors(_, _, _, _, _)
ApplyReflectors(Q_basis, Q_coeff, cj, j, M) ==
    IF j >= Q_basis.ncols THEN M
    ELSE matmul_with_conj(Reflector(Q_basis, Q_coeff, cj, j), "No",
                          ApplyReflectors(Q_basis, Q_coeff, cj, j + 1, M), "No")
\* linalg::householder::apply_block_householder_sequence_on_the_left_in_place_with_conj
\* with one reflector per block: M := Q * M
apply_block_householder_sequence_on_the_left_in_place_with_conj(Q_basis, Q_coeff, cj, M) ==
    ApplyReflectors(Q_basis, Q_coeff, cj, 0, M)
\* PermRef::inverse
PermRef_inverse(P) == [forward |-> P.inverse, inverse |-> P.forward]
\* perm::permute_cols_in_place: column j becomes the old column forward[j]
permute_cols_in_place(M, P) ==
    [M EXCEPT !.d = [q \in DOMAIN M.d |-> M.d[<<q[1], P.forward.d[q[2]]>>]]]
\* M with its leading block written through the view M.get_mut(..r, ..c)
SetLeading(M, T) ==
    [M EXCEPT !.d = [q \in DOMAIN M.d |-> IF q \in DOMAIN T.d THEN T.d[q] ELSE M.d[q]]]

\* reconstruct as it would be if it permuted by col_perm itself
qr_col_pivoting_reconstruct_NoInverse(out, Q_basis, Q_coeff, Rmat, col_perm, p) ==
    LET QR == apply_block_householder_sequence_on_the_left_in_place_with_conj(
                  Q_basis, Q_coeff, "No",
                  SetLeading(MatZeros(out.nrows, out.ncols),
                             copy_from_triangular_upper(
                                 MatZeros(Min(Q_basis.nrows, Rmat.ncols), Rmat.ncols), Rmat)))
    IN IF Shape(out) = <<Q_basis.nrows, Rmat.ncols>>
          /\ Shape(Q_basis) = <<out.nrows, Rmat.nrows>> /\ Shape(Rmat) = <<Q_coeff.ncols, out.ncols>>
          /\ Rmat.nrows = Min(out.nrows, out.ncols)
          /\ Perm_len(col_perm) = [hi |-> 0, lo |-> out.ncols]
       THEN [res |-> "ok", out |-> permute_cols_in_place(QR, col_perm)]
       ELSE [res |-> "panic", out |-> out]
\* reconstruct as it would be if it copied all of R
qr_col_pivoting_reconstruct_WholeR(out, Q_basis, Q_coeff, Rmat, col_perm, p) ==
    IF Shape(out) = <<Q_basis.nrows, Rmat.ncols>>
       /\ Shape(Q_basis) = <<out.nrows, Rmat.nrows>> /\ Shape(Rmat) = <<Q_coeff.ncols, out.ncols>>
       /\ Rmat.nrows = Min(out.nrows, out.ncols)
       /\ Perm_len(col_perm) = [hi |-> 0, lo |-> out.ncols]
    THEN [res |-> "ok",
          out |-> permute_cols_in_place(
                      apply_block_householder_sequence_on_the_left_in_place_with_conj(
                          Q_basis, Q_coeff, "No", SetLeading(MatZeros(out.nrows, out.ncols), Rmat)),
                      PermRef_inverse(col_perm))]
    ELSE [res |-> "panic", out |-> out]
\* linalg::qr::col_pivoting::reconstruct::reconstruct
qr_col_pivoting_reconstruct(out, Q_basis, Q_coeff, Rmat, col_perm, p) ==
    LET m == Q_basis.nrows
        n == Rmat.ncols
        size == Min(m, n)
    IN IF ~(/\ out.nrows = m
            /\ out.ncols = n
            /\ Q_basis.nrows = m
            /\ Q_basis.ncols = size
            /\ Q_coeff.ncols = size
            /\ Rmat.nrows = size
            /\ Rmat.ncols = n
            /\ Perm_len(col_perm) = [hi |-> 0, lo |-> n])
       THEN [res |-> "panic", out |-> out]
       ELSE LET zeroed == MatZeros(out.nrows, out.ncols)
                top == copy_from_triangular_upper(GetCols(GetRows(zeroed, size), n), Rmat)
                QR == apply_block_householder_sequence_on_the_left_in_place_with_conj(
                          Q_basis, Q_coeff, "No", SetLeading(zeroed, top))
            IN [res |-> "ok", out |-> permute_cols_in_place(QR, PermRef_inverse(col_perm))]

\* ================================================================== state
VARIABLES
    A,        \* the caller's source view: canonical data and conjugation tag
    par,      \* the process-wide parallelism policy
    fact,     \* the factorization object the caller holds, or NoFact
    kern,     \* what the last constructor's kernel was given and answered
    op,       \* the last public operation called
    res,      \* how it ended: "ok", "err" (typed error) or "panic"
    err,      \* the error value it returned
    log,      \* the calls it made, in order
    conj_arg, \* the conj argument of the last solve
    rhs_in,   \* the rhs buffer as the caller passed it to the last solve
    rhs,      \* the same buffer when the solve ended
    out,      \* the matrix the last reconstruct() / inverse() returned
    perm,     \* the Perm the caller holds, with the arguments and the
              \* returned value of the last Perm operation
    rec       \* the arguments of the last call of the column-pivoted QR
              \* reconstruct kernel, out as it was on entry
vars == <<A, par, fact, kern, op, res, err, log, conj_arg, rhs_in, rhs, out, perm, rec>>

ParVals == {"Seq", "Rayon"}
Sides == {"Lower", "Upper"}
RhsInputs == {Gen(r, c, s) : r \in 1 .. MaxDim, c \in 1 .. MaxRhsCols, s \in 1 .. MaxSeed}
SrcViews == {[mat |-> Gen(m, n, s), conj |-> c] :
                m \in 1 .. MaxDim, n \in 1 .. MaxDim, s \in 1 .. MaxSrcSeed, c \in ConjVals}

NoPermCall == [obj |-> NoPerm, arg |-> <<>>, ret |-> <<>>]
NoRecCall == [called |-> FALSE]

Init ==
    /\ A \in SrcViews
    /\ par \in ParVals
    /\ fact = NoFact
    /\ kern = NoKern
    /\ op = "none"
    /\ res = "none"
    /\ err = NoErr
    /\ log = <<>>
    /\ conj_arg = "No"
    /\ rhs_in = NoMat
    /\ rhs = NoMat
    /\ out = NoMat
    /\ perm = NoPermCall
    /\ rec = NoRecCall

\* a constructor returned r
Constructed(name, r) ==
    /\ fact.kind = "None"
    /\ op' = name
    /\ res' = r.res
    /\ err' = r.err
    /\ fact' = r.fact
    /\ kern' = r.kern
    /\ log' = r.log
    /\ UNCHANGED <<A, par, conj_arg, rhs_in, rhs, out, perm, rec>>

CholeskyNew == \E side \in Sides, k \in KernelChoices :
    Constructed("Cholesky::new", Cholesky_new(A, side, par, k))
LdltNew == \E side \in Sides, k \in KernelChoices :
    Constructed("Ldlt::new", Ldlt_new(A, side, par, k))
LbltNew == \E side \in Sides, k \in KernelChoices :
    Constructed("Lblt::new", Lblt_new(A, side, par, k))
PartialPivLuNew == \E k \in KernelChoices :
    Constructed("PartialPivLu::new", PartialPivLu_new(A, par, k))
FullPivLuNew == \E k \in KernelChoices :
    Constructed("FullPivLu::new", FullPivLu_new(A, par, k))
QrNew == \E k \in KernelChoices :
    Constructed("Qr::new", Qr_new(A, par, k))
ColPivQrNew == \E k \in KernelChoices :
    Constructed("ColPivQr::new", ColPivQr_new(A, par, k))
SvdNew == \E k \in KernelChoices :
    Constructed("Svd::new", Svd_new(A, par, k))
SvdNewThin == \E k \in KernelChoices :
    Constructed("Svd::new_thin", Svd_new_thin(A, par, k))
SelfAdjointEigenNew == \E side \in Sides, k \in KernelChoices :
    Constructed("SelfAdjointEigen::new", SelfAdjointEigen_new(A, side, par, k))
EigenNew == \E k \in KernelChoices :
    Constructed("Eigen::new", Eigen_new(A, par, k))
EigenNewFromReal == \E k \in EvdRealChoices(A.mat.nrows) :
    Constructed("Eigen::new_from_real", Eigen_new_from_real(A, par, k))

\* set_global_parallelism
SetGlobalParallelism == \E p \in ParVals :
    /\ p # par
    /\ par' = p
    /\ UNCHANGED <<A, fact, kern, op, res, err, log, conj_arg, rhs_in, rhs, out, perm, rec>>

\* a solve on the held factorization returned r
Solved(name, cj, X, r) ==
    /\ op' = name
    /\ res' = r.res
    /\ err' = NoErr
    /\ log' = r.log
    /\ conj_arg' = cj
    /\ rhs_in' = X
    /\ rhs' = r.rhs
    /\ out' = NoMat
    /\ UNCHANGED <<A, par, fact, kern, perm, rec>>
\* reconstruct() or inverse() on the held factorization returned r
\* reconstruct() or inverse() consuming the object it was called on
Densed_DropsObject(name, r) ==
    /\ op' = name
    /\ res' = r.res
    /\ err' = NoErr
    /\ log' = r.log
    /\ conj_arg' = "No"
    /\ rhs_in' = NoMat
    /\ rhs' = NoMat
    /\ out' = r.out
    /\ fact' = NoFact
    /\ UNCHANGED <<A, par, kern, perm, rec>>
Densed(name, r) ==
    /\ op' = name
    /\ res' = r.res
    /\ err' = NoErr
    /\ log' = r.log
    /\ conj_arg' = "No"
    /\ rhs_in' = NoMat
    /\ rhs' = NoMat
    /\ out' = r.out
    /\ UNCHANGED <<A, par, fact, kern, perm, rec>>

\* The five operations take &self and leave the object, the source view and
\* the policy as they are, so a later call on an object starts from the same
\* object as the first one: every (object, policy, call) combination is
\* reached by the first call made on a freshly built object. The solves,
\* which draw their arguments from large sets, are taken as first calls only;
\* reconstruct() and inverse() are also taken after another call.
FirstCall == op \notin
    {"solve_in_place_with_conj", "solve_transpose_in_place_with_conj",
     "solve_lstsq_in_place_with_conj", "reconstruct", "inverse"}

SolveInPlace == \E cj \in ConjVals, X \in RhsInputs :
    /\ fact.kind \in SolveKinds
    /\ FirstCall
    /\ Solved("solve_in_place_with_conj", cj, X, solve_in_place_with_conj(fact, cj, X, par))
SolveTransposeInPlace == \E cj \in ConjVals, X \in RhsInputs :
    /\ fact.kind \in SolveKinds
    /\ FirstCall
    /\ Solved("solve_transpose_in_place_with_conj", cj, X,
              solve_transpose_in_place_with_conj(fact, cj, X, par))
SolveLstsqInPlace == \E cj \in ConjVals, X \in RhsInputs :
    /\ fact.kind \in LstsqKinds
    /\ FirstCall
    /\ Solved("solve_lstsq_in_place_with_conj", cj, X,
              solve_lstsq_in_place_with_conj(fact, cj, X, par))
Reconstruct ==
    /\ fact.kind \in SolveKinds
    /\ Densed("reconstruct", reconstruct(fact, par))
Inverse ==
    /\ fact.kind \in SolveKinds
    /\ Densed("inverse", inverse(fact, par))

Next ==
    \/ CholeskyNew
    \/ LdltNew
    \/ LbltNew
    \/ PartialPivLuNew
    \/ FullPivLuNew
    \/ QrNew
    \/ ColPivQrNew
    \/ SvdNew
    \/ SvdNewThin
    \/ SelfAdjointEigenNew
    \/ EigenNew
    \/ EigenNewFromReal
    \/ SolveInPlace
    \/ SolveTransposeInPlace
    \/ SolveLstsqInPlace
    \/ Reconstruct
    \/ Inverse
    \/ SetGlobalParallelism

Spec == Init /\ [][Next]_vars

\* ------------------------------------------------------- the Perm object
\* the index arrays a caller may pass: every array of at most MaxPermLen
\* indices below MaxPermLen, and one array of 2^31 indices (one more than
\* I::Signed::MAX) whose elements are not enumerated
PermSlices ==
    {BoxedSlice(f) : f \in UNION {[0 .. n - 1 -> 0 .. MaxPermLen - 1] : n \in 0 .. MaxPermLen}}
        \cup {[hi |-> 1, lo |-> 0, d |-> <<>>]}
PermDims == 0 .. MaxPermLen

PermInit ==
    /\ A = [mat |-> Gen(1, 1, 1), conj |-> "No"]
    /\ par = "Seq"
    /\ fact = NoFact
    /\ kern = NoKern
    /\ op = "none"
    /\ res = "none"
    /\ err = NoErr
    /\ log = <<>>
    /\ conj_arg = "No"
    /\ rhs_in = NoMat
    /\ rhs = NoMat
    /\ out = NoMat
    /\ perm = NoPermCall
    /\ rec = NoRecCall

\* a Perm operation was given arg, left the caller with obj and returned ret
PermCalled(name, arg, obj, ret, ok) ==
    /\ op' = name
    /\ res' = IF ok THEN "ok" ELSE "panic"
    /\ perm' = [obj |-> obj, arg |-> arg, ret |-> ret]
    /\ UNCHANGED <<A, par, fact, kern, err, log, conj_arg, rhs_in, rhs, out, rec>>

PermNewChecked ==
    /\ op = "none"
    /\ \E fwd \in PermSlices, inv \in PermSlices, dim \in PermDims :
       LET P == Perm_new_checked(fwd, inv, dim)
       IN PermCalled("Perm::new_checked",
                     [forward |-> fwd, inverse |-> inv, dim |-> dim], P, <<>>, P.ok)
PermNewUnchecked ==
    /\ op = "none"
    /\ \E fwd \in PermSlices, inv \in PermSlices :
       LET P == Perm_new_unchecked(fwd, inv)
       IN PermCalled("Perm::new_unchecked",
                     [forward |-> fwd, inverse |-> inv], P, <<>>, P.ok)
PermIntoShape ==
    /\ perm.obj.ok
    /\ \E dim \in PermDims :
       LET P == Perm_into_shape(perm.obj, dim)
       IN PermCalled("Perm::into_shape", [self |-> perm.obj, dim |-> dim], P, <<>>, P.ok)
PermIntoInverse ==
    /\ perm.obj.ok
    /\ PermCalled("Perm::into_inverse", [self |-> perm.obj],
                  Perm_into_inverse(perm.obj), <<>>, TRUE)
PermIntoArrays ==
    /\ perm.obj.ok
    /\ PermCalled("Perm::into_arrays", [self |-> perm.obj],
                  NoPerm, Perm_into_arrays(perm.obj), TRUE)
PermAsRef ==
    /\ perm.obj.ok
    /\ PermCalled("Perm::as_ref", [self |-> perm.obj], perm.obj, Perm_as_ref(perm.obj), TRUE)
PermLen ==
    /\ perm.obj.ok
    /\ PermCalled("Perm::len", [self |-> perm.obj], perm.obj, Perm_len(perm.obj), TRUE)

PermNext ==
    \/ PermNewChecked
    \/ PermNewUnchecked
    \/ PermIntoShape
    \/ PermIntoInverse
    \/ PermIntoArrays
    \/ PermAsRef
    \/ PermLen

PermSpec == PermInit /\ [][PermNext]_vars

\* ------------------------------ the column-pivoted QR reconstruct kernel
\* the arguments a caller may pass: buffers of every shape up to MaxBufDim,
\* reflector vectors with small entries, one row of real reflector
\* coefficients (1 and 2 in turn), and the identity and the rotation by one
\* as col_perm
RecDims == 1 .. MaxBufDim
RecOuts == {Gen(m, n, s) : m \in RecDims, n \in RecDims, s \in 1 .. MaxSeed}
RecBases == {[nrows |-> m, ncols |-> n,
              d |-> [q \in Idx(m, n) |-> C(((q[1] + q[2] + 1) % 3) - 1, (q[1] * q[2] + 1) % 2)]] :
                m \in RecDims, n \in RecDims}
RecCoeffs == {[nrows |-> 1, ncols |-> n, d |-> [q \in Idx(1, n) |-> C(1 + (q[2] % 2), 0)]] :
                n \in RecDims}
RecFactors == {Gen(m, n, s) : m \in RecDims, n \in RecDims, s \in 1 .. MaxSrcSeed}
RecPerms == {Perm_as_ref(PermOf(BoxedSlice(RotFwd(n, s)), BoxedSlice(RotBwd(n, s)))) :
                n \in RecDims, s \in 0 .. 1}

RecInit ==
    /\ A = [mat |-> Gen(1, 1, 1), conj |-> "No"]
    /\ par = "Seq"
    /\ fact = NoFact
    /\ kern = NoKern
    /\ op = "none"
    /\ res = "none"
    /\ err = NoErr
    /\ log = <<>>
    /\ conj_arg = "No"
    /\ rhs_in = NoMat
    /\ rhs = NoMat
    /\ out \in RecOuts
    /\ perm = NoPermCall
    /\ rec = NoRecCall

\* reconstruct(out, Q_basis, Q_coeff, R, col_perm, par, stack) on the
\* caller's out buffer
QrColPivotingReconstruct ==
    /\ op = "none"
    /\ \E Q_basis \in RecBases, Q_coeff \in RecCoeffs, Rmat \in RecFactors, col_perm \in RecPerms :
          LET r == qr_col_pivoting_reconstruct(out, Q_basis, Q_coeff, Rmat, col_perm, par)
          IN /\ op' = "qr::col_pivoting::reconstruct"
             /\ res' = r.res
             /\ out' = r.out
             /\ rec' = [called |-> TRUE, out |-> out, Q_basis |-> Q_basis, Q_coeff |-> Q_coeff,
                        R |-> Rmat, col_perm |-> col_perm]
    /\ UNCHANGED <<A, par, fact, kern, err, log, conj_arg, rhs_in, rhs, perm>>

RecNext == QrColPivotingReconstruct
RecSpec == RecInit /\ [][RecNext]_vars

\* ------------------------------------------- make_self_adjoint on its own
\* the buffers it may be given: every shape from 0 x 0 to MaxBufDim x
\* MaxBufDim, dense complex entries in four arrangements
AdjInputs ==
    UNION {{Gen(m, n, s), Transpose(Gen(n, m, s)), ConjMat(Gen(m, n, s)), Adjoint(Gen(n, m, s))} :
              <<m, n, s>> \in (0 .. MaxBufDim) \X (0 .. MaxBufDim) \X (1 .. MaxSeed)}

AdjInit ==
    /\ A \in [mat : AdjInputs, conj : {"No"}]
    /\ par = "Seq"
    /\ fact = NoFact
    /\ kern = NoKern
    /\ op = "none"
    /\ res = "none"
    /\ err = NoErr
    /\ log = <<>>
    /\ conj_arg = "No"
    /\ rhs_in = NoMat
    /\ rhs = NoMat
    /\ out = NoMat
    /\ perm = NoPermCall
    /\ rec = NoRecCall

\* make_self_adjoint(A): out is the buffer as the call left it
MakeSelfAdjoint ==
    /\ op = "none"
    /\ LET r == make_self_adjoint(A.mat)
       IN op' = "make_self_adjoint" /\ res' = r.res /\ out' = r.A
    /\ UNCHANGED <<A, par, fact, kern, err, log, conj_arg, rhs_in, rhs, perm, rec>>
\* a second make_self_adjoint on the buffer the first one left
MakeSelfAdjointAgain ==
    /\ op = "make_self_adjoint"
    /\ LET r == make_self_adjoint(out)
       IN op' = "make_self_adjoint twice" /\ res' = r.res /\ out' = r.A
    /\ UNCHANGED <<A, par, fact, kern, err, log, conj_arg, rhs_in, rhs, perm, rec>>

AdjNext == MakeSelfAdjoint \/ MakeSelfAdjointAgain
AdjSpec == AdjInit /\ [][AdjNext]_vars

\* ---------------------------- Eigen::new_from_real with any driver answer
\* real square sources from 0 x 0 to MaxBufDim x MaxBufDim
UnpackInit ==
    /\ A \in {[mat |-> GenReal(n, n, 1), conj |-> "No"] : n \in 0 .. MaxBufDim}
    /\ par = "Seq"
    /\ fact = NoFact
    /\ kern = NoKern
    /\ op = "none"
    /\ res = "none"
    /\ err = NoErr
    /\ log = <<>>
    /\ conj_arg = "No"
    /\ rhs_in = NoMat
    /\ rhs = NoMat
    /\ out = NoMat
    /\ perm = NoPermCall
    /\ rec = NoRecCall

\* Eigen::new_from_real when the driver may answer any S_im, paired or not
EigenNewFromRealAnyPairing ==
    \E k \in [ok : BOOLEAN, seed : 1 .. MaxSeed, pat : [0 .. A.mat.nrows - 1 -> {-1, 0, 1}]] :
        Constructed("Eigen::new_from_real", Eigen_new_from_real(A, par, k))

UnpackNext == EigenNewFromRealAnyPairing
UnpackSpec == UnpackInit /\ [][UnpackNext]_vars


\* ================================================================= claims
HasEv(lg, kinds) == \E i \in 1 .. Len(lg) : lg[i].ev \in kinds
CountEv(lg, kind) == Cardinality({i \in 1 .. Len(lg) : lg[i].ev = kind})
ConstructorOps == {"Cholesky::new", "Ldlt::new", "Lblt::new", "PartialPivLu::new",
                   "FullPivLu::new", "Qr::new", "ColPivQr::new", "Svd::new",
                   "Svd::new_thin", "SelfAdjointEigen::new", "Eigen::new",
                   "Eigen::new_from_real"}
FallibleOps == {"Cholesky::new", "Ldlt::new", "Svd::new", "Svd::new_thin",
                "SelfAdjointEigen::new", "Eigen::new", "Eigen::new_from_real"}
SplitOps == {"PartialPivLu::new", "FullPivLu::new", "Qr::new", "ColPivQr::new"}
SelfAdjointKinds == {"Cholesky", "Ldlt", "Lblt", "SelfAdjointEigen"}

\* index t starts a pair in the walk j = 0, ... over S_im
RECURSIVE IsPairStart(_, _, _, _)
IsPairStart(S_im, t, j, n) ==
    IF j >= n THEN FALSE
    ELSE IF S_im[j] = RZero THEN IsPairStart(S_im, t, j + 1, n)
    ELSE j = t \/ IsPairStart(S_im, t, j + 2, n)
FromRealDone == op = "Eigen::new_from_real" /\ res = "ok"

\* C1: after Eigen::new_from_real, for a pair at j, j+1 column j of U is
\* U_real[:,j] + i U_real[:,j+1] and column j+1 is its conjugate; for a real
\* eigenvalue at j column j of U is U_real[:,j] with zero imaginary part.
C1_EigenvectorPairs ==
    FromRealDone =>
        LET n == fact.U.nrows IN
        \A j \in 0 .. n - 1 :
            /\ IsPairStart(kern.S_im, j, 0, n) =>
                  \A i \in 0 .. n - 1 :
                      /\ At(fact.U, i, j) =
                            ComplexNew(At(kern.U_real, i, j), At(kern.U_real, i, j + 1))
                      /\ At(fact.U, i, j + 1) =
                            ComplexNew(At(kern.U_real, i, j), RNeg(At(kern.U_real, i, j + 1)))
            /\ kern.S_im[j] = RZero =>
                  \A i \in 0 .. n - 1 :
                      At(fact.U, i, j) = ComplexNew(At(kern.U_real, i, j), RZero)

\* C2: after Eigen::new_from_real, a pair at j, j+1 is stored as
\* S[j] = (S_re[j], S_im[j]) and S[j+1] = (S_re[j], -S_im[j]); a real
\* eigenvalue at j is stored as S[j] = (S_re[j], 0).
C2_EigenvaluePairs ==
    FromRealDone =>
        LET n == fact.U.nrows IN
        \A j \in 0 .. n - 1 :
            /\ IsPairStart(kern.S_im, j, 0, n) =>
                  /\ fact.S.d[j] = ComplexNew(kern.S_re[j], kern.S_im[j])
                  /\ fact.S.d[j + 1] = ComplexNew(kern.S_re[j], RNeg(kern.S_im[j]))
            /\ kern.S_im[j] = RZero =>
                  fact.S.d[j] = ComplexNew(kern.S_re[j], RZero)
C2_Witness ==
    /\ FromRealDone
    /\ \E j \in 0 .. fact.U.nrows - 1 : IsPairStart(kern.S_im, j, 0, fact.U.nrows)

IsSelfAdjoint(M) ==
    /\ M.nrows = M.ncols
    /\ \A q \in DOMAIN M.d : M.d[q] = conj(M.d[<<q[2], q[1]>>])
\* make_self_adjoint ran after the last kernel or matmul of the call
EndsWithMakeSelfAdjoint(lg) ==
    \E i \in 1 .. Len(lg) :
        /\ lg[i] = Post("make_self_adjoint")
        /\ \A t \in i + 1 .. Len(lg) : lg[t].ev \notin {"kernel", "matmul"}

\* C3: reconstruct() and inverse() of Cholesky, Ldlt, Lblt and
\* SelfAdjointEigen apply make_self_adjoint as their last step, so the matrix
\* returned equals its own conjugate transpose (real diagonal included).
C3_SelfAdjointOutput ==
    (op \in {"reconstruct", "inverse"} /\ res = "ok" /\ fact.kind \in SelfAdjointKinds) =>
        /\ EndsWithMakeSelfAdjoint(log)
        /\ IsSelfAdjoint(out)

\* C4: solve_in_place_with_conj and solve_transpose_in_place_with_conj of
\* every factorization check squareness and rhs.nrows() on entry; a failed
\* check ends the call before any scratch query, allocation, kernel or matmul
\* and leaves rhs as it was.
C4_SolveCheckedOnEntry ==
    (/\ op \in {"solve_in_place_with_conj", "solve_transpose_in_place_with_conj"}
     /\ ~(nrows(fact) = ncols(fact) /\ rhs_in.nrows = nrows(fact))) =>
        /\ res = "panic"
        /\ ~HasEv(log, {"alloc", "kernel", "matmul"})
        /\ rhs = rhs_in

\* C5: solve_lstsq_in_place_with_conj of Qr, ColPivQr and Svd fails on entry
\* (nothing allocated, no kernel, no matmul, rhs untouched) when
\* nrows() < ncols() or rhs.nrows() != nrows(), and passes the entry check and
\* reaches its kernel or first matmul for every other shape.
C5_LstsqCheckedOnEntry ==
    op = "solve_lstsq_in_place_with_conj" =>
        LET bad == nrows(fact) < ncols(fact) \/ rhs_in.nrows # nrows(fact) IN
        /\ bad => /\ res = "panic"
                  /\ ~HasEv(log, {"scratch_query", "alloc", "kernel", "matmul"})
                  /\ rhs = rhs_in
        /\ ~bad => /\ ~HasEv(log, {"check"})
                   /\ HasEv(log, {"kernel", "matmul"})
C5_Witness ==
    /\ op = "solve_lstsq_in_place_with_conj"
    /\ nrows(fact) < ncols(fact)
    /\ rhs_in.nrows = nrows(fact)
    /\ res = "panic"

\* every matmul of the call writes a destination of shape
\* (rows of the left operand) x (columns of the right operand)
MatmulsConform(lg) ==
    \A i \in 1 .. Len(lg) :
        lg[i].ev = "matmul" =>
            /\ lg[i].dims[1] = lg[i].dims[3]
            /\ lg[i].dims[2] = lg[i].dims[6]
            /\ lg[i].dims[4] = lg[i].dims[5]
\* V[:, :n] diag(1/S) U[:, :n]^H X
LstsqExpected(F, X) ==
    LET n == ncols(F)
        s == [j \in DOMAIN F.S.d |-> RRecip(real(F.S.d[j]))]
    IN matmul_with_conj(ScaleCols(GetCols(F.V, n), s), "No",
                        matmul_with_conj(Adjoint(GetCols(F.U, n)), "No", X, "No"), "No")

\* C6: for an Svd of an m x n matrix with m >= n and an rhs with m rows,
\* solve_lstsq_in_place_with_conj succeeds, every matmul it issues is
\* conformant, and (conj = No) the leading n rows of rhs hold
\* V[:, :n] diag(1/S) U[:, :n]^H rhs.
C6_SvdLstsq ==
    (/\ op = "solve_lstsq_in_place_with_conj"
     /\ fact.kind = "Svd"
     /\ nrows(fact) >= ncols(fact)
     /\ rhs_in.nrows = nrows(fact)) =>
        /\ res = "ok"
        /\ MatmulsConform(log)
        /\ conj_arg = "No" => GetRows(rhs, ncols(fact)) = LstsqExpected(fact, rhs_in)

\* the scratch-size query that belongs to a factorization kernel
MatchingQuery(kfn) ==
    CASE kfn \in {"evd::evd_real", "evd::evd_cplx"} -> "evd::evd_scratch"
      [] OTHER -> kfn \o "_scratch"

\* C7: every constructor sizes its scratch from the query that belongs to the
\* kernel it then invokes, with the same dimensions and parallelism.
C7_MatchingScratchQuery ==
    op \in ConstructorOps =>
        \A i \in 1 .. Len(log) :
            log[i].ev = "kernel" =>
                \E q \in 1 .. i - 1 :
                    /\ log[q].ev = "scratch_query"
                    /\ log[q].fn = MatchingQuery(log[i].fn)
                    /\ log[q].dims = log[i].dims
                    /\ log[q].par = log[i].par

\* fields that would keep a scratch buffer alive inside the object
ScratchFields == {"mem", "stack"}

\* C8: when an operation has returned (normally or with the kernel's error)
\* every scratch buffer it allocated has been released, and the factorization
\* object holds none.
C8_ScratchReleased ==
    /\ \A i \in 1 .. Len(log) :
          log[i].ev = "alloc" => \E t \in i + 1 .. Len(log) : log[t].ev = "free"
    /\ CountEv(log, "alloc") = CountEv(log, "free")
    /\ DOMAIN fact \cap ScratchFields = {}
C8_Witness ==
    /\ op = "Cholesky::new"
    /\ res = "err"
    /\ HasEv(log, {"alloc"})

\* C9: when the kernel of a fallible constructor reports a numerical failure
\* the constructor returns exactly that error and no object, does no
\* post-processing, and the caller's source matrix stays as it was.
C9_State ==
    (op \in FallibleOps /\ kern.fn # "None" /\ ~kern.ok) =>
        /\ res = "err"
        /\ err = kern.err
        /\ fact.kind = "None"
        /\ ~HasEv(log, {"post"})
C9_KernelErrorReturned == [](C9_State) /\ [][A' = A]_vars
C9_Witness ==
    /\ op = "Ldlt::new"
    /\ res = "err"
    /\ err.kind = "ZeroPivot"
    /\ fact.kind = "None"

Lower(F) == IF F.kind \in {"Qr", "ColPivQr"} THEN F.Q_basis ELSE F.L
Upper(F) == IF F.kind \in {"Qr", "ColPivQr"} THEN F.R ELSE F.U

\* C10: for an in-place factored m x n matrix F with m >= n, split_LU returns
\* L (m x n: F strictly below the diagonal, unit diagonal, zero above) and
\* U (n x n: upper triangle of F, zero below).
C10_SplitTall ==
    (op \in SplitOps /\ kern.out.nrows >= kern.out.ncols) =>
        /\ res = "ok"
        /\ LET F == kern.out
               L == Lower(fact)
               U == Upper(fact)
           IN /\ Shape(L) = <<F.nrows, F.ncols>>
              /\ \A q \in Idx(F.nrows, F.ncols) :
                    L.d[q] = IF q[1] > q[2] THEN F.d[q]
                             ELSE IF q[1] = q[2] THEN one ELSE zero
              /\ Shape(U) = <<F.ncols, F.ncols>>
              /\ \A q \in Idx(F.ncols, F.ncols) :
                    U.d[q] = IF q[1] <= q[2] THEN F.d[q] ELSE zero

\* C11: for an in-place factored m x n matrix F with m < n, split_LU returns
\* U (m x n: upper triangle of F, zero below) and L (m x m: F strictly below
\* the diagonal, unit diagonal, zero above); the four constructors store that
\* pair as (L, U), respectively (Q_basis, R).
C11_SplitWide ==
    (op \in SplitOps /\ kern.out.nrows < kern.out.ncols) =>
        /\ res = "ok"
        /\ LET F == kern.out
               L == Lower(fact)
               U == Upper(fact)
           IN /\ Shape(U) = <<F.nrows, F.ncols>>
              /\ \A q \in Idx(F.nrows, F.ncols) :
                    U.d[q] = IF q[1] <= q[2] THEN F.d[q] ELSE zero
              /\ Shape(L) = <<F.nrows, F.nrows>>
              /\ \A q \in Idx(F.nrows, F.nrows) :
                    L.d[q] = IF q[1] > q[2] THEN F.d[q]
                             ELSE IF q[1] = q[2] THEN one ELSE zero

\* ---- Perm
\* forward and inverse have the same length n, each maps {0..n-1} one-to-one
\* onto itself, and each undoes the other
IsBijection(a) ==
    /\ \A i \in 0 .. a.lo - 1 : a.d[i] \in 0 .. a.lo - 1
    /\ \A i, j \in 0 .. a.lo - 1 : a.d[i] = a.d[j] => i = j
ValidPair(forward, inv) ==
    /\ SliceLen(forward) = SliceLen(inv)
    /\ IsBijection(forward)
    /\ IsBijection(inv)
    /\ \A k \in 0 .. forward.lo - 1 : inv.d[forward.d[k]] = k /\ forward.d[inv.d[k]] = k
PermOps == {"Perm::new_checked", "Perm::new_unchecked", "Perm::into_inverse",
            "Perm::into_shape", "Perm::as_ref"}

\* C12 as stated: every Perm that new_checked, new_unchecked, into_inverse,
\* into_shape or as_ref hands out has forward and inverse of one length n, each
\* a bijection on {0..n-1}, each the inverse of the other.
C12_EveryPermValid ==
    (op \in PermOps /\ perm.obj.ok) =>
        /\ ValidPair(perm.obj.forward, perm.obj.inverse)
        /\ op = "Perm::as_ref" => ValidPair(perm.ret.forward, perm.ret.inverse)

\* what the operation started from is sound: new_checked takes anything,
\* new_unchecked is given arrays that meet its safety contract, the others are
\* applied to a Perm that has the property
C12_SoundStart ==
    CASE op = "Perm::new_checked" -> TRUE
      [] op = "Perm::new_unchecked" -> ValidPair(perm.arg.forward, perm.arg.inverse)
      [] OTHER -> ValidPair(perm.arg.self.forward, perm.arg.self.inverse)
\* C12 amended: a Perm returned by new_checked, by new_unchecked on arrays that
\* meet its safety contract, or by into_inverse, into_shape, as_ref on a Perm
\* that has the property, has forward and inverse of one length n, each a
\* bijection on {0..n-1}, each the inverse of the other.
C12_PermValidFromSoundStart ==
    (op \in PermOps /\ perm.obj.ok /\ C12_SoundStart) =>
        /\ ValidPair(perm.obj.forward, perm.obj.inverse)
        /\ op = "Perm::as_ref" => ValidPair(perm.ret.forward, perm.ret.inverse)
\* a permutation that is not its own inverse went through into_inverse
C12_Witness ==
    /\ op = "Perm::into_inverse"
    /\ ValidPair(perm.obj.forward, perm.obj.inverse)
    /\ perm.obj.forward # perm.obj.inverse

\* C13: into_inverse returns the Perm whose forward is the old inverse and
\* whose inverse is the old forward, of the same length and with every
\* element as it was; it keeps a valid pair valid; applied to its own result
\* it gives back the Perm it started from.
C13_Swapped ==
    op = "Perm::into_inverse" =>
        /\ res = "ok"
        /\ perm.obj.forward = perm.arg.self.inverse
        /\ perm.obj.inverse = perm.arg.self.forward
        /\ Perm_len(perm.obj) = Perm_len(perm.arg.self)
        /\ ValidPair(perm.arg.self.forward, perm.arg.self.inverse)
              => ValidPair(perm.obj.forward, perm.obj.inverse)
C13_IntoInverse ==
    /\ []C13_Swapped
    /\ [][(op = "Perm::into_inverse" /\ op' = "Perm::into_inverse")
              => perm'.obj = perm.arg.self]_vars
\* into_inverse was applied to a Perm of MaxPermLen elements whose two arrays differ
C13_Witness ==
    /\ op = "Perm::into_inverse"
    /\ perm.arg.self.forward.lo = MaxPermLen
    /\ perm.arg.self.forward # perm.arg.self.inverse

\* the length of a is above I::Signed::MAX
ExceedsSignedMax(a) == a.hi > 0 \/ a.lo > IndexSignedMax
\* C14: new_checked panics, and returns no Perm, whenever forward and inverse
\* differ in length, the length exceeds I::Signed::MAX, either array is not a
\* bijection on {0..n-1}, or the two are not inverse of each other;
\* new_unchecked panics whenever the lengths differ or the length exceeds
\* I::Signed::MAX; into_shape panics whenever dim differs from len().
C14_Panics ==
    /\ (/\ op = "Perm::new_checked"
        /\ \/ SliceLen(perm.arg.forward) # SliceLen(perm.arg.inverse)
           \/ ExceedsSignedMax(perm.arg.forward)
           \/ ~ValidPair(perm.arg.forward, perm.arg.inverse))
            => (res = "panic" /\ ~perm.obj.ok)
    /\ (/\ op = "Perm::new_unchecked"
        /\ \/ SliceLen(perm.arg.forward) # SliceLen(perm.arg.inverse)
           \/ ExceedsSignedMax(perm.arg.forward))
            => (res = "panic" /\ ~perm.obj.ok)
    /\ (/\ op = "Perm::into_shape"
        /\ Perm_len(perm.arg.self) # [hi |-> 0, lo |-> perm.arg.dim])
            => (res = "panic" /\ ~perm.obj.ok)
\* new_unchecked was given two arrays of one length above I::Signed::MAX
C14_Witness ==
    /\ op = "Perm::new_unchecked"
    /\ SliceLen(perm.arg.forward) = SliceLen(perm.arg.inverse)
    /\ ExceedsSignedMax(perm.arg.forward)
    /\ res = "panic"

\* C15: on a Cholesky, Ldlt or Lblt, solve_transpose_in_place_with_conj(c, X)
\* makes the calls that solve_in_place_with_conj(c (+) Yes, X) makes (same
\* scratch query, same kernel, same conj handed to it) and leaves the same X;
\* with c = Yes that is the plain solve with No; composing with Yes twice
\* gives c back. (log[1] is the policy read the operation started with.)
C15_TransposeIsComposedSolve ==
    /\ (op = "solve_transpose_in_place_with_conj" /\ fact.kind \in {"Cholesky", "Ldlt", "Lblt"}) =>
          LET r == solve_in_place_with_conj(fact, Compose(conj_arg, "Yes"), rhs_in, log[1].par)
          IN /\ res = r.res
             /\ log = r.log
             /\ rhs = r.rhs
             /\ conj_arg = "Yes" =>
                   rhs = solve_in_place_with_conj(fact, "No", rhs_in, log[1].par).rhs
    /\ \A c \in ConjVals : Compose(Compose(c, "Yes"), "Yes") = c
\* a transpose solve on an Lblt with conj = Yes ended, and left something else
\* than the plain solve with Yes would
C15_Witness ==
    /\ op = "solve_transpose_in_place_with_conj"
    /\ fact.kind = "Lblt"
    /\ conj_arg = "Yes"
    /\ res = "ok"
    /\ rhs # solve_in_place_with_conj(fact, "Yes", rhs_in, log[1].par).rhs

\* T := M1^T * X with M1 conjugated iff c1 = Yes; row i of T divided by S[i];
\* the result is M2 * T with M2 conjugated iff c2 = Yes
ThreeSteps(M1, c1, S, M2, c2, X) ==
    LET T0 == matmul_with_conj(Transpose(M1), c1, X, "No")
        T == [T0 EXCEPT !.d = [q \in DOMAIN T0.d |->
                                  CMul(T0.d[q], from_real(RRecip(real(S.d[q[1]]))))]]
    IN matmul_with_conj(M2, c2, T, "No")
\* the calls made, in order: the policy read, the first product with c1 on
\* its left operand, the row scaling, the second product with c2
ThreeStepsLog(c1, c2) ==
    /\ Len(log) = 4
    /\ log[2].ev = "matmul" /\ log[2].dims[7] = c1 /\ log[2].dims[8] = "No"
    /\ log[3].ev = "post"
    /\ log[4].ev = "matmul" /\ log[4].dims[7] = c2 /\ log[4].dims[8] = "No"
SquareFit == nrows(fact) = ncols(fact) /\ rhs_in.nrows = nrows(fact)
\* C16: on a square Svd, solve(c, X) is T := U^T X with U conjugated iff
\* c (+) Yes = Yes, rows of T divided by S, X := V T with V conjugated iff
\* c = Yes; solve_transpose(c, X) is the same with V (conjugated iff c = Yes)
\* first and U (conjugated iff c (+) Yes = Yes) last; SelfAdjointEigen does the
\* same with U in the place of V.
C16_SvdSolveSteps ==
    (fact.kind \in {"Svd", "SelfAdjointEigen"} /\ SquareFit) =>
        LET c == conj_arg
            cY == Compose(conj_arg, "Yes")
            U == fact.U
            V == IF fact.kind = "Svd" THEN fact.V ELSE fact.U
        IN /\ op = "solve_in_place_with_conj" =>
                /\ res = "ok"
                /\ ThreeStepsLog(cY, c)
                /\ rhs = ThreeSteps(U, cY, fact.S, V, c, rhs_in)
           /\ op = "solve_transpose_in_place_with_conj" =>
                /\ res = "ok"
                /\ ThreeStepsLog(c, cY)
                /\ rhs = ThreeSteps(V, c, fact.S, U, cY, rhs_in)
\* a transpose solve on a 2 x 2 Svd ended, and left something else than the
\* steps of the plain solve would
C16_Witness ==
    /\ fact.kind = "Svd"
    /\ op = "solve_transpose_in_place_with_conj"
    /\ nrows(fact) = 2 /\ SquareFit
    /\ res = "ok"
    /\ rhs # ThreeSteps(fact.U, Compose(conj_arg, "Yes"), fact.S, fact.V, conj_arg, rhs_in)

\* the view of the same data with the other conjugation tag
OtherView(v) == [v EXCEPT !.conj = Compose(v.conj, "Yes")]
\* the factorizations of the fact's kind that a constructor returns for view v
BuiltFrom(v, p) ==
    IF fact.kind = "Svd"
    THEN {[given |-> Svd_new(v, p, k).fact, other |-> Svd_new(OtherView(v), p, k).fact] :
             k \in {x \in KernelChoices : x.ok}}
    ELSE {[given |-> SelfAdjointEigen_new(v, s, p, k).fact,
           other |-> SelfAdjointEigen_new(OtherView(v), s, p, k).fact] :
             k \in {x \in KernelChoices : x.ok}, s \in Sides}
\* M, conjugated iff c = Yes: what a matmul reads of an operand
Operand(M, c) == IF c = "Yes" THEN ConjMat(M) ELSE M
C18_EigenConjView ==
    (op = "Eigen::new" /\ res = "ok") =>
        IF A.conj = "Yes"
        THEN /\ fact.U = ConjMat(kern.U)
             /\ fact.S = [kern.S EXCEPT !.d = [i \in DOMAIN kern.S.d |-> conj(kern.S.d[i])]]
        ELSE /\ fact.U = kern.U
             /\ fact.S = kern.S

\* W as C19 states it for the matrix the view v stands for
ExpectedW(v, side) ==
    LET M == ViewValue(v) IN
    [nrows |-> M.nrows, ncols |-> M.nrows,
     d |-> [q \in Idx(M.nrows, M.nrows) |->
              IF q[1] < q[2] THEN zero
              ELSE IF side = "Lower" THEN M.d[q] ELSE conj(M.d[<<q[2], q[1]>>])]]
\* v with the entries strictly outside the selected triangle overwritten by x
OtherTriangleSet(v, side, x) ==
    [v EXCEPT !.mat.d = [q \in DOMAIN v.mat.d |->
        IF (side = "Lower" /\ q[1] < q[2]) \/ (side = "Upper" /\ q[1] > q[2])
        THEN x ELSE v.mat.d[q]]]
Junk == {zero, C(5, 7)}
\* C19: the working copy that Cholesky::new, Ldlt::new and Lblt::new hand to
\* the kernel is, for side = Lower, W[i][j] = A[i][j] (i >= j), for side =
\* Upper, W[i][j] = conj(A[j][i]) (i >= j), and zero for i < j; an input that
\* differs from A only outside the selected triangle gives the same result.
C19_WorkingCopy ==
    /\ (op \in {"Cholesky::new", "Ldlt::new", "Lblt::new"} /\ kern # NoKern) =>
          \E side \in Sides : kern.input = ExpectedW(A, side)
    /\ (op \in {"Cholesky::new", "Ldlt::new", "Lblt::new"} /\ A.mat.nrows = A.mat.ncols) =>
          \A side \in Sides, k \in KernelChoices :
             /\ Cholesky_new(A, side, par, k).kern.input = ExpectedW(A, side)
             /\ Ldlt_new(A, side, par, k).kern.input = ExpectedW(A, side)
             /\ Lblt_new(A, side, par, k).kern.input = ExpectedW(A, side)
             /\ \A x \in Junk :
                   LET B == OtherTriangleSet(A, side, x)
                   IN /\ Cholesky_new(B, side, par, k) = Cholesky_new(A, side, par, k)
                      /\ Ldlt_new(B, side, par, k) = Ldlt_new(A, side, par, k)
                      /\ Lblt_new(B, side, par, k) = Lblt_new(A, side, par, k)
\* Lblt::new was called with side = Upper on a 2 x 2 conjugate view whose two
\* triangles give different working copies, and rewriting its lower triangle
\* gives another input
C19_Witness ==
    /\ op = "Lblt::new"
    /\ A.mat.nrows = 2 /\ A.mat.ncols = 2 /\ A.conj = "Yes"
    /\ kern # NoKern
    /\ kern.input = ExpectedW(A, "Upper")
    /\ kern.input # ExpectedW(A, "Lower")
    /\ OtherTriangleSet(A, "Upper", zero) # A

\* the calls that are handed the parallelism
ParUsers == {"scratch_query", "kernel", "matmul"}
\* the calls of one operation: the policy is read once, before anything else
\* is called, and every call that takes a parallelism gets the value read
\* (an operation whose entry assertion fails before the read calls nothing)
OneReadUsedThroughout(lg) ==
    /\ CountEv(lg, "par_read") <= 1
    /\ (lg # <<>> /\ lg[1].ev # "check") =>
          /\ lg[1].ev = "par_read"
          /\ CountEv(lg, "par_read") = 1
    /\ \A i \in 1 .. Len(lg) :
          lg[i].ev \in ParUsers => (lg[1].ev = "par_read" /\ lg[i].par = lg[1].par)
ReadOnlyOps == {"solve_in_place_with_conj", "solve_transpose_in_place_with_conj",
                "solve_lstsq_in_place_with_conj", "reconstruct", "inverse"}
\* what the last operation gives when it is the only call made on the object
RunAlone ==
    LET p == log[1].par IN
    CASE op = "solve_in_place_with_conj" ->
            solve_in_place_with_conj(fact, conj_arg, rhs_in, p)
      [] op = "solve_transpose_in_place_with_conj" ->
            solve_transpose_in_place_with_conj(fact, conj_arg, rhs_in, p)
      [] op = "solve_lstsq_in_place_with_conj" ->
            solve_lstsq_in_place_with_conj(fact, conj_arg, rhs_in, p)
      [] op = "reconstruct" ->
            LET r == reconstruct(fact, p) IN OpRet(r.res, r.log, NoMat, r.out)
      [] op = "inverse" ->
            LET r == inverse(fact, p) IN OpRet(r.res, r.log, NoMat, r.out)
Identity(m) == [nrows |-> m, ncols |-> m,
                d |-> [q \in Idx(m, m) |-> IF q[1] = q[2] THEN one ELSE zero]]
\* Q = H_0 * H_1 * ... * H_(k-1), multiplied out from the left
RECURSIVE ExplicitQ(_, _, _)
ExplicitQ(Q_basis, Q_coeff, k) ==
    IF k = 0 THEN Identity(Q_basis.nrows)
    ELSE matmul_with_conj(ExplicitQ(Q_basis, Q_coeff, k - 1), "No",
                          Reflector(Q_basis, Q_coeff, "No", k - 1), "No")
\* entry (i, j) of Q * R, R read as upper triangular
RECURSIVE QRAt(_, _, _, _, _)
QRAt(Q, Rmat, i, j, t) ==
    IF t = 0 THEN zero
    ELSE CAdd(QRAt(Q, Rmat, i, j, t - 1),
              IF t - 1 <= j THEN CMul(Q.d[<<i, t - 1>>], Rmat.d[<<t - 1, j>>]) ELSE zero)
RecDone == op = "qr::col_pivoting::reconstruct" /\ res = "ok"
\* C22: after reconstruct, for tall and for wide shapes, column
\* col_perm_fwd[j] of out is column j of Q * R, with Q the product of the
\* reflectors held in (Q_basis, Q_coeff) and R the upper triangle of the R
\* argument: out = Q * R * P^T.
C22_ReconstructIsQRPt ==
    RecDone =>
        LET size == rec.R.nrows
            Q == ExplicitQ(rec.Q_basis, rec.Q_coeff, size)
            fwd == rec.col_perm.forward.d
        IN /\ Shape(out) = <<rec.Q_basis.nrows, rec.R.ncols>>
           /\ \A i \in 0 .. out.nrows - 1, j \in 0 .. out.ncols - 1 :
                out.d[<<i, fwd[j]>>] = QRAt(Q, rec.R, i, j, size)
\* a wide factorization with a column permutation that is not the identity
C22_Witness ==
    /\ RecDone
    /\ rec.Q_basis.nrows < rec.R.ncols
    /\ rec.col_perm.forward.d # rec.col_perm.inverse.d

\* ---------------------------------------------------------------- C23
\* sum over t < k of M1[i, t] * s[t] * conj(M2[j, t])
RECURSIVE ScaledSum(_, _, _, _, _, _)
ScaledSum(M1, s, M2, i, j, k) ==
    IF k = 0 THEN zero
    ELSE CAdd(ScaledSum(M1, s, M2, i, j, k - 1),
              CMul(mul_real(M1.d[<<i, k - 1>>], s[k - 1]), conj(M2.d[<<j, k - 1>>])))
SvdDense(name) == fact.kind = "Svd" /\ op = name
\* C23: for a thin or full Svd of an m x n matrix, k = min(m, n), reconstruct()
\* returns the m x n matrix whose entry (i, j) is the sum over t < k of
\* U[i, t] * S[t] * conj(V[j, t]), and the product it calls is given operands
\* of fitting shapes; for a square Svd inverse() returns the matrix of entries
\* sum over t of V[i, t] * (1 / S[t]) * conj(U[j, t]).
C23_SvdDense ==
    LET m == nrows(fact)
        n == ncols(fact)
        k == Min(m, n)
    IN /\ SvdDense("reconstruct") =>
            /\ res = "ok"
            /\ ~HasEv(log, {"callee_panic", "check"})
            /\ fact.S.len = k
            /\ Shape(out) = <<m, n>>
            /\ \A q \in Idx(m, n) :
                 out.d[q] = ScaledSum(fact.U, [t \in 0 .. k - 1 |-> real(fact.S.d[t])],
                                      fact.V, q[1], q[2], k)
       /\ (SvdDense("inverse") /\ m = n) =>
            /\ res = "ok"
            /\ ~HasEv(log, {"callee_panic", "check"})
            /\ Shape(out) = <<n, n>>
            /\ \A q \in Idx(n, n) :
                 out.d[q] = ScaledSum(fact.V, [t \in 0 .. n - 1 |-> RRecip(real(fact.S.d[t]))],
                                      fact.U, q[1], q[2], n)
\* reconstruct() of a full Svd of a matrix that is not square
C23_Witness ==
    /\ SvdDense("reconstruct")
    /\ res = "ok"
    /\ nrows(fact) # ncols(fact)
    /\ fact.U.ncols > fact.S.len

\* ---------------------------------------------------------------- C24
\* C24: for an m x n source, Svd::new stores U of shape m x m and V of shape
\* n x n, Svd::new_thin stores U of shape m x min(m, n) and V of shape
\* n x min(m, n), and both store min(m, n) singular values.
C24_SvdShapes ==
    LET m == A.mat.nrows
        n == A.mat.ncols
        k == Min(m, n)
    IN /\ (op = "Svd::new" /\ res = "ok") =>
            /\ Shape(fact.U) = <<m, m>>
            /\ Shape(fact.V) = <<n, n>>
            /\ fact.S.len = k /\ DOMAIN fact.S.d = 0 .. k - 1
       /\ (op = "Svd::new_thin" /\ res = "ok") =>
            /\ Shape(fact.U) = <<m, k>>
            /\ Shape(fact.V) = <<n, k>>
            /\ fact.S.len = k /\ DOMAIN fact.S.d = 0 .. k - 1
\* a thin Svd of a tall matrix: U is not square
C24_Witness ==
    /\ op = "Svd::new_thin"
    /\ res = "ok"
    /\ A.mat.nrows > A.mat.ncols
    /\ fact.U.ncols < fact.U.nrows

\* ---------------------------------------------------------------- C25
SquareOnlyOps == {"Cholesky::new", "Ldlt::new", "Lblt::new", "SelfAdjointEigen::new",
                  "Eigen::new", "Eigen::new_from_real"}
AnyShapeOps == SplitOps \cup {"Svd::new"}
AnyShapeKinds == {"PartialPivLu", "FullPivLu", "Qr", "ColPivQr", "Svd"}
SourceSquare == A.mat.nrows = A.mat.ncols
\* the six constructors of square-only factorizations reject a source that is
\* not square before any allocation or kernel call
C25_SquareOnlyRejects ==
    (op \in SquareOnlyOps /\ ~SourceSquare) =>
        /\ res = "panic"
        /\ fact = NoFact
        /\ ~HasEv(log, {"alloc", "kernel", "scratch_query"})
\* inverse() of the any-shape factorizations rejects an object that is not
\* square before the kernel is invoked
C25_InverseRejects ==
    (op = "inverse" /\ fact.kind \in AnyShapeKinds /\ nrows(fact) # ncols(fact)) =>
        /\ res = "panic"
        /\ ~HasEv(log, {"alloc", "kernel"})
\* the any-shape constructors accept a source of every shape, and
\* reconstruct() of their objects makes no check of its own
C25_AnyShapeAccepted ==
    /\ op \in AnyShapeOps => res # "panic"
    /\ (op = "reconstruct" /\ fact.kind \in AnyShapeKinds) => ~HasEv(log, {"check"})
\* C25: Cholesky::new, Ldlt::new, Lblt::new, SelfAdjointEigen::new, Eigen::new
\* and Eigen::new_from_real fail on a source that is not square before any
\* allocation or kernel call; inverse() of PartialPivLu, FullPivLu, Qr,
\* ColPivQr and Svd fails when nrows() # ncols() before the kernel is invoked;
\* PartialPivLu::new, FullPivLu::new, Qr::new, ColPivQr::new and Svd::new
\* accept every m x n shape and reconstruct() of those makes no square check.
C25_SquareChecks ==
    /\ C25_SquareOnlyRejects
    /\ C25_InverseRejects
    /\ C25_AnyShapeAccepted

\* ---------------------------------------------------------------- C26
\* C26: every factorization object built from an m x n source, tall, square
\* or wide, thin or full, reports nrows() = m and ncols() = n; the two
\* matrices split_LU hands to the LU and QR objects have m rows (the first)
\* and n columns (the second) in both of its branches.
C26_ShapeOfSource ==
    /\ fact # NoFact =>
          /\ nrows(fact) = A.mat.nrows
          /\ ncols(fact) = A.mat.ncols
    /\ kern # NoKern =>
          LET s == split_LU(kern.input)
          IN /\ s.L.nrows = kern.input.nrows
             /\ s.U.ncols = kern.input.ncols
\* a thin Svd of a wide source, whose V has fewer columns than rows
C26_Witness ==
    /\ fact # NoFact
    /\ fact.kind = "Svd"
    /\ A.mat.nrows < A.mat.ncols
    /\ fact.V.ncols < fact.V.nrows
    /\ ncols(fact) = A.mat.ncols

\* ---------------------------------------------------------------- C27
AdjOps == {"make_self_adjoint", "make_self_adjoint twice"}
\* C27: make_self_adjoint on an n x n buffer leaves the entries strictly below
\* the diagonal as they were, sets each diagonal entry to its real part and
\* each entry (i, j) above the diagonal to the conjugate of the original
\* entry (j, i); the result equals its own conjugate transpose; a second
\* application changes nothing; on a buffer that is not square it fails and
\* leaves the buffer as it was.
C27_MakeSelfAdjoint ==
    op \in AdjOps =>
        LET M == A.mat
        IN IF M.nrows # M.ncols
           THEN res = "panic" /\ out = M
           ELSE /\ res = "ok"
                /\ Shape(out) = Shape(M)
                /\ DOMAIN out.d = DOMAIN M.d
                /\ \A q \in DOMAIN M.d :
                     /\ q[1] > q[2] => out.d[q] = M.d[q]
                     /\ q[1] = q[2] => out.d[q] = ComplexNew(M.d[q].re, RZero)
                     /\ q[1] < q[2] => out.d[q] = conj(M.d[<<q[2], q[1]>>])
                /\ IsSelfAdjoint(out)
\* a second application on a 3 x 3 buffer that the first one had changed
C27_Witness ==
    /\ op = "make_self_adjoint twice"
    /\ res = "ok"
    /\ out.nrows >= 3
    /\ out # A.mat

\* ---------------------------------------------------------------- C28
\* L is n x n with zeros strictly above the diagonal and the kernel's
\* in-place result strictly below it
LowerOfKernel(L, n) ==
    /\ Shape(L) = <<n, n>>
    /\ \A q \in Idx(n, n) :
         /\ q[1] < q[2] => L.d[q] = zero
         /\ q[1] > q[2] => L.d[q] = kern.out.d[q]
\* d has n entries, the diagonal of the kernel's in-place result
DiagOfKernel(d, n) ==
    /\ d.len = n
    /\ DOMAIN d.d = 0 .. n - 1
    /\ \A i \in 0 .. n - 1 : d.d[i] = kern.out.d[<<i, i>>]
UnitDiag(L, n) == \A i \in 0 .. n - 1 : L.d[<<i, i>>] = one
\* C28: after a successful Ldlt::new or Lblt::new on an n x n source the stored
\* diagonal (D, B_diag) has n entries, the diagonal the kernel left in place
\* before it was overwritten, and the stored L has ones on its diagonal, zeros
\* strictly above it and the kernel's entries strictly below it; Cholesky's L
\* keeps the kernel's diagonal and has zeros strictly above it; Lblt's
\* B_subdiag and both arrays of P have n entries.
C28_StoredFactors ==
    LET n == A.mat.nrows
    IN /\ (op = "Ldlt::new" /\ res = "ok") =>
            /\ DiagOfKernel(fact.D, n)
            /\ LowerOfKernel(fact.L, n)
            /\ UnitDiag(fact.L, n)
       /\ (op = "Lblt::new" /\ res = "ok") =>
            /\ DiagOfKernel(fact.B_diag, n)
            /\ LowerOfKernel(fact.L, n)
            /\ UnitDiag(fact.L, n)
            /\ fact.B_subdiag.len = n
            /\ SliceLen(fact.P.forward) = [hi |-> 0, lo |-> n]
            /\ SliceLen(fact.P.inverse) = [hi |-> 0, lo |-> n]
       /\ (op = "Cholesky::new" /\ res = "ok") =>
            /\ LowerOfKernel(fact.L, n)
            /\ DiagOfKernel(Diagonal(fact.L), n)
\* an Ldlt of a 2 x 2 source whose kernel left a diagonal other than ones and
\* entries above the diagonal
C28_Witness ==
    /\ op = "Ldlt::new"
    /\ res = "ok"
    /\ A.mat.nrows = 2
    /\ kern.out.d[<<0, 1>>] # zero
    /\ kern.out.d[<<1, 1>>] # one
    /\ fact.D.d[1] = kern.out.d[<<1, 1>>]

\* ---------------------------------------------------------------- C29
\* the non-zero entries of S_im from j on come only as adjacent pairs
RECURSIVE PairsOnly(_, _, _)
PairsOnly(S_im, j, n) ==
    IF j >= n THEN TRUE
    ELSE IF S_im[j] = RZero THEN PairsOnly(S_im, j + 1, n)
    ELSE j + 1 < n /\ S_im[j + 1] # RZero /\ PairsOnly(S_im, j + 2, n)
\* walking from j, the last entry is non-zero and is met as the start of a pair
RECURSIVE LastStartsPair(_, _, _)
LastStartsPair(S_im, j, n) ==
    IF j >= n THEN FALSE
    ELSE IF S_im[j] = RZero THEN LastStartsPair(S_im, j + 1, n)
    ELSE IF j = n - 1 THEN TRUE ELSE LastStartsPair(S_im, j + 2, n)
UnpackRan == op = "Eigen::new_from_real" /\ kern # NoKern /\ kern.ok
\* C29: the unpacking loop ends with j = n, for every n >= 0, and uses no
\* index >= n and writes S[0], ..., S[n - 1] once each whenever the non-zero
\* entries of S_im come only as adjacent pairs; when the last entry of S_im is
\* non-zero and is met as the start of a pair, the loop uses index n, past the
\* end, and the constructor panics.
C29_UnpackLoop ==
    UnpackRan =>
        LET n == A.mat.nrows
            un == UnpackLoop(0, n, kern.S_re, kern.S_im, kern.U_real, UnpackStart(n))
        IN /\ un.j \in {n - 1, n}
           /\ un.hi <= n
           /\ PairsOnly(kern.S_im, 0, n) =>
                /\ res = "ok"
                /\ un.j = n
                /\ ~un.oob
                /\ un.hi < n
                /\ un.wr = [i \in 1 .. n |-> i - 1]
                /\ fact.S.len = n
           /\ LastStartsPair(kern.S_im, 0, n) =>
                /\ res = "panic"
                /\ un.oob
                /\ un.hi = n
                /\ un.j = n - 1
           /\ res = "ok" => un.j = n
\* a 3 x 3 source whose driver answered a real eigenvalue, then a non-zero
\* imaginary part in the last place
C29_Witness ==
    /\ UnpackRan
    /\ A.mat.nrows = 3
    /\ kern.S_im[0] = RZero
    /\ kern.S_im[1] = RZero
    /\ kern.S_im[2] # RZero
    /\ res = "panic"

\* ---------------------------------------------------------------- C30
\* the shapes reconstruct asks for, m and n being the rows of Q_basis and
\* the columns of R
RecShapesFit ==
    LET m == rec.Q_basis.nrows
        n == rec.R.ncols
        k == Min(m, n)
    IN /\ Shape(rec.out) = <<m, n>>
       /\ Shape(rec.Q_basis) = <<m, k>>
       /\ rec.Q_coeff.ncols = k
       /\ Shape(rec.R) = <<k, n>>
       /\ Perm_len(rec.col_perm) = [hi |-> 0, lo |-> n]
\* other previous contents of an out buffer of the same shape
OtherOuts(M) == {MatZeros(M.nrows, M.ncols), ConjMat(M)}
    \cup {Gen(M.nrows, M.ncols, s) : s \in 1 .. MaxSeed}
\* R with other entries strictly below its diagonal: cleaned, and other junk
OtherLowers(M) == {ZeroStrictLower(M), copy_from_triangular_upper(ConjMat(M), M)}
\* C30: the column-pivoted QR reconstruct checks the shapes of out, Q_basis,
\* Q_coeff, R and col_perm first and, if they do not fit, fails with out as
\* it was; when it succeeds, the out it leaves is the same whatever out held
\* before and whatever R holds strictly below its diagonal.
C30_ChecksFirstAndIgnoresJunk ==
    rec.called =>
        IF ~RecShapesFit
        THEN res = "panic" /\ out = rec.out
        ELSE /\ res = "ok"
             /\ \A o \in OtherOuts(rec.out), r \in OtherLowers(rec.R) \cup {rec.R} :
                  qr_col_pivoting_reconstruct(o, rec.Q_basis, rec.Q_coeff, r,
                                              rec.col_perm, par).out = out
\* a successful call whose R held non-zero entries below the diagonal and
\* whose out buffer was not zero
C30_Witness ==
    /\ rec.called
    /\ res = "ok"
    /\ rec.R.nrows >= 2
    /\ rec.R.d[<<1, 0>>] # zero
    /\ rec.out.d[<<0, 0>>] # zero
    /\ ZeroStrictLower(rec.R) # rec.R



====
